---- MODULE Spec2Model ----
(***************************************************************************)
(* Verification model of siegfried's identification pipeline.              *)
(*                                                                         *)
(*   Part I   the byte-matcher's scorer (pkg/core/bytematcher/tally.go)    *)
(*            with the goroutines around it: the strike goroutines that    *)
(*            send key-frame hits, finalise, and the consumer of the       *)
(*            results channel (pkg/pronom/parse.go).                       *)
(*   Part II  the container matcher's scan of the entries of a container   *)
(*            (containermatcher: identify, CTest.identify, processHits).   *)
(*   Part III the recorder of an identifier (pkg/pronom/identifier.go):    *)
(*            Record, Satisfied and Report.                                *)
(*   Part IV  PronomIdentifier.Identify (pkg/pronom/parse.go), which       *)
(*            scores and reports on its own.                               *)
(*   Part V   the MIME-info identifier (mimeinfo: Add and Recognise), which *)
(*            maps the indexes of the matchers to its format IDs.          *)
(*   Part VI  the stream buffer (siegreader): SmallFile with the goroutines *)
(*            that call Slice, EofSlice, canSeek and fillEof, and the      *)
(*            Readers over one buffer.                                     *)
(*   Part VII parseSig and appendSig (pkg/pronom/parse.go), which build a  *)
(*            signature from the byte sequences of a PRONOM signature.     *)
(*   Part VIII the patterns Sequence, Choice and List                      *)
(*            (pkg/core/bytematcher/patterns/patterns.go).                 *)
(*   Part IX  the key frames of the byte matcher: updatePositions and      *)
(*            CheckRelated (pkg/core/bytematcher/process).                 *)
(*   Part X   Matcher.Identify of the container matcher, its goroutines    *)
(*            and the consumer of the channel it returns.                  *)
(*   Part XI  multiIdentifyP of the sf command: the walk, the goroutines   *)
(*            of the files and the printer.                                *)
(***************************************************************************)
EXTENDS Integers, Sequences, FiniteSets, TLC

\* ------------------------------------------------------------------ bounds
\* number of byte signatures of the scanned signature set
NSig == 2
\* number of strike goroutines (key-frame hits) of one scan
NStrike == 3
\* largest number of parts of the container signatures, all together
MaxTotalParts == 3
\* largest number of entries of a scanned container
MaxEntries == 2
\* the results that Record takes as hits before Report
MaxRecords == 3
\* the results the byte matcher sends to PronomIdentifier.Identify
MaxResults == 3
\* the largest base index a matcher gives to the signatures of an identifier
MaxStart == 1
\* the largest number of signatures an identifier adds to one matcher
MaxIDs == 2
\* the largest number of bytes of a source given to SetSource
MaxSize == 5
\* the largest number of byte sequences of a PRONOM signature
MaxByteSeqs == 3
\* the largest number of tokens of the hex string of a byte sequence
MaxToks == 2
\* the largest number of bytes of a Sequence pattern
MaxSeqLen == 1
\* the largest number of bytes of a tested buffer
MaxBufLen == 3
\* the largest offset of the window of a segment
MaxOff == 1
\* the largest scan-depth cap (config.MaxBOF(), config.MaxEOF())
MaxCap == 2
\* largest number of files of a walked directory
MaxFiles == 4
\* the capacity of resc, scaled down from the 16 of multiIdentifyP
RescCap == 2

\* the recorder's scores (1 << iota)
extScore == 1
mimeScore == 2
textScore == 4
incScore == 8

Sigs == 0 .. (NSig - 1)

\* the entry names of the container signatures (identify_test.go:17-21)
Names == {"one", "two"}

\* ----------------------------------------------------------------- helpers
RECURSIVE SetToSortedSeq(_)
\* the ascending sequence of the integers of S
SetToSortedSeq(S) ==
    IF S = {} THEN << >>
    ELSE LET m == CHOOSE x \in S : \A y \in S : x <= y
         IN  << m >> \o SetToSortedSeq(S \ {m})

Range(q) == { q[i] : i \in 1 .. Len(q) }

\* every priority list over the signature indices: sorted ascending
SortedLists == { SetToSortedSeq(S) : S \in SUBSET Sigs }

\* a priority-map entry the scan has not looked up yet
Unset == << -1 >>

VARIABLES
    \* ---- tally (tally.go:10-29)
    spawned,      \* number of strike goroutines started so far (queue.Add(1))
    pending,      \* signature -> number of strike goroutines blocked in t.kfHits <- hit of it
    awaitHalt,    \* number of strike goroutines blocked in <-t.halt
    incomingOpen, \* matcher.incoming not yet closed
    shutdownReq,  \* pending `go t.once.Do(...)` goroutines, by their eof argument
    onceDone,     \* t.once has run
    finPc,        \* position of finalise
    finEof,       \* finalise's eof argument
    quitClosed,   \* close(t.quit) done
    resultsClosed,\* close(t.results) done
    stopClosed,   \* close(t.stop) done
    fhPc,         \* position of filterHits
    hit,          \* filterHits' current hit.id[0]
    satisfied,    \* filterHits' local satisfied
    waitList,     \* t.waitList: [nil |-> BOOLEAN, list |-> sorted sequence]
    consPc,       \* consumer of results: "recv" | "reply" | "abandoned" | "finished"
    consRes,      \* the result the consumer last received
    Priorities,   \* consumer's priority map: signature -> wait-list (Unset until looked up)
    reported,     \* history: the results sent on the results channel, in order
    waitsRead,    \* history: number of wait-lists the scorer has read
    emptied,      \* history: the consumer has answered a result with an empty wait-list
    \* ---- container matcher
    cParts,       \* c.Parts: the number of parts of each signature
    NameCTest,    \* c.NameCTest: name -> [Satisfied, Unsatisfied], lists of parts
                  \* [sig, k] (part k of signature sig)
    cPrioNil,     \* c.Priorities == nil
    cWaitList,    \* c.waitList: [nil |-> BOOLEAN, list |-> sorted sequence]
    partsMatched, \* c.partsMatched: signature -> the names of the hits appended
    ruledOut,     \* c.ruledOut
    cPc,          \* "build", then identify's loop: "next", and res closed:
                  \* "broke" (break) | "ended" (no entry left)
    cReported,    \* history: the results sent on res, in order: [id, wl, prio],
                  \* wl = c.waitList when it was sent, prio = the list
                  \* c.Priorities[id] read after it (<< >> when c.Priorities is nil)
    nEntries,     \* history: the number of entries of the container so far
    matchedRead,  \* history: the parts <<sig, k>> that an entry read by the scan matches
    matchedAll,   \* history: the parts that an entry of the container matches
    \* ---- recorder
    rIds,         \* r.ids: identifications [ID, Basis, Warning, confidence],
                  \* Basis = the matcher types whose hits were recorded for the ID
    cscore,       \* r.cscore
    rSatisfied,   \* r.satisfied
    rPc,          \* "record" until Report is called, then "reported"
    nRecords,     \* the number of results that Record took as hits so far
    rInserted,    \* history: r.ids when Report was called, in insertion order
    rSorted,      \* history: r.ids as sort.Sort left it
    rNoPriority,  \* history: r.NoPriority() as Report read it
    rReported,    \* history: the identifications Report sent on res, in order
    rConfig,      \* history: what Report read of the identifier and of the active
                  \* flags: [has, textActive, extActive, extIDs, mimeActive, mimeIDs]
    rRet,         \* history: what the last call returned: [call, m, ok, start]
    \* ---- PronomIdentifier.Identify
    piPc,         \* "name" (the name matcher is asked), "bytes" (the loop over
                  \* the byte matcher's results), "reported"
    piIds,        \* pi.ids: [puid, basis, warning, confidence]; a confidence
                  \* counts units of 10^-(MaxResults + 1)
    piCscore,     \* cscore, in the same units
    piResults,    \* history: the indexes the byte matcher sent, in order
    piSorted,     \* history: pi.ids as sort.Sort left it
    piReported,   \* history: the identifications sent on c, in order
    \* ---- MIME-info identifier
    miIdentifier, \* matcher type -> [start, ids]: gstart and gids ("name"), mstart
                  \* and mids ("mime"), xstart and xids ("xml"), bstart and bids
                  \* ("byte"), tstart ("text")
    miRet,        \* history: the last call of Recognise: [m, idx, ok, id]
    \* ---- siegreader
    sf,           \* the SmallFile with its source: [src, n, chunk, pos, quit, buf,
                  \* eof, complete, closes, sz, val, eofRead, mutex, panic]
    sfG,          \* goroutine -> [pc, op, s, l, rev, i]: the call it is in
    sfRet,        \* history: the last return of a call on the SmallFile
    rd,           \* Reader -> [made, i, j, scratch, end]
    rdRet,        \* history: the last return of a call on a Reader
    \* ---- parseSig
    sig,          \* the signature built so far: frames [typ, min, max, bs, tok]
    nByteSeqs,    \* the byte sequences of s.ByteSequences parsed so far
    \* ---- patterns
    ptCall,       \* the last call on a pattern: [op, p, q, b, ok, n, seqs]
    \* ---- key frames
    kfCall,       \* the last call on key frames: [op, ks, bof, eof, after, ...]
    \* ---- container matcher Identify
    ci,       \* a call of Matcher.Identify: [m, ext, res, go, left, cons, got]
    \* ---- sf: the parallel directory scan
    mp        \* a call of multiIdentifyP: [files, main, next, resc, rescClosed, rchan, printer, rr, printed, ret]

tallyVars == << spawned, pending, awaitHalt, incomingOpen, shutdownReq, onceDone,
                finPc, finEof, quitClosed, resultsClosed, stopClosed, fhPc, hit,
                satisfied, waitList, consPc, consRes, Priorities, reported,
                waitsRead, emptied >>

contVars == << cParts, NameCTest, cPrioNil, cWaitList, partsMatched, ruledOut,
               cPc, cReported, nEntries, matchedRead, matchedAll >>

recVars == << rIds, cscore, rSatisfied, rPc, nRecords, rInserted, rSorted,
              rNoPriority, rReported, rConfig, rRet >>

piVars == << piPc, piIds, piCscore, piResults, piSorted, piReported >>

miVars == << miIdentifier, miRet >>

srVars == << sf, sfG, sfRet, rd, rdRet >>

psVars == << sig, nByteSeqs >>

vars == << tallyVars, contVars, recVars, piVars, miVars, srVars, psVars, ptCall, kfCall, ci, mp >>

\* what the tally's actions leave alone
tallyRest == << contVars, recVars, piVars, miVars, srVars, psVars, ptCall, kfCall, ci, mp >>
\* what the container matcher's actions leave alone
contRest == << tallyVars, recVars, piVars, miVars, srVars, psVars, ptCall, kfCall, ci, mp >>
\* what the recorder's actions leave alone
recRest == << tallyVars, contVars, piVars, miVars, srVars, psVars, ptCall, kfCall, ci, mp >>
\* what PronomIdentifier.Identify leaves alone
piRest == << tallyVars, contVars, recVars, miVars, srVars, psVars, ptCall, kfCall, ci, mp >>
\* what the calls on key frames leave alone
kfRest == << tallyVars, contVars, recVars, piVars, miVars, srVars, psVars, ptCall, ci, mp >>
\* what Matcher.Identify leaves alone
ciRest == << tallyVars, contVars, recVars, piVars, miVars, srVars, psVars, ptCall, kfCall, mp >>
\* what multiIdentifyP leaves alone
mpRest == << tallyVars, contVars, recVars, piVars, miVars, srVars, psVars, ptCall, kfCall, ci >>
\* what the calls on patterns leave alone
ptRest == << tallyVars, contVars, recVars, piVars, miVars, srVars, psVars, kfCall, ci, mp >>
\* what parseSig leaves alone
psRest == << tallyVars, contVars, recVars, piVars, miVars, srVars, ptCall, kfCall, ci, mp >>
\* what the stream buffer's actions leave alone
srRest == << tallyVars, contVars, recVars, piVars, miVars, psVars, ptCall, kfCall, ci, mp >>
\* what the MIME-info identifier's actions leave alone
miRest == << tallyVars, contVars, recVars, piVars, srVars, psVars, ptCall, kfCall, ci, mp >>

\* ------------------------------------------------------- tally: pure parts

RECURSIVE SearchFrom(_, _, _, _)
\* sort.Search's loop over a[i..j) (0-based), for the predicate a[h] >= x
SearchFrom(a, x, i, j) ==
    IF i < j
    THEN LET h == (i + j) \div 2
         IN  IF ~(a[h + 1] >= x) THEN SearchFrom(a, x, h + 1, j)
                                 ELSE SearchFrom(a, x, i, h)
    ELSE i

\* sort.SearchInts(a, x): binary search, 0-based index
SearchInts(a, x) == SearchFrom(a, x, 0, Len(a))

\* a checkWait that ignores the wait list
checkWaitAdmitAll(w, i) == TRUE

\* tally.checkWait: a nil list admits every index, otherwise i must be on the list
checkWait(w, i) ==
    IF w.nil THEN TRUE
    ELSE LET idx == SearchInts(w.list, i)
         IN  ~(idx = Len(w.list) \/ w.list[idx + 1] # i)

\* a sendResult that never returns true
sendResultNeverDone(w) == FALSE

\* tally.sendResult's return value: nothing more to wait for
sendResultDone(w) == Len(w) = 0

\* a filterHits that, once satisfied, drops a hit without a halt reply
satisfiedNoReply == "select"

\* filterHits, satisfied: the hit is answered on t.halt (tally.go:98-100)
satisfiedReply == "halt99"

\* a sendResult that does not read the wait channel
sendNoWait == "halt116"

\* sendResult, after t.results <- res: read the wait channel (tally.go:123)
sendThenWait == "wait123"

\* the WaitGroups bofQueue and eofQueue are at zero
QueueEmpty == awaitHalt = 0 /\ \A g \in Sigs : pending[g] = 0

HaltPcs == {"halt99", "halt104", "halt110", "halt116"}

HaltValue(pc) == IF pc \in {"halt99", "halt110"} THEN "true" ELSE "false"

\* ------------------------------------------------------------ tally: Init

TallyInit ==
    /\ spawned = 0
    /\ pending = [g \in Sigs |-> 0]
    /\ awaitHalt = 0
    /\ incomingOpen = TRUE
    /\ shutdownReq = {}
    /\ onceDone = FALSE
    /\ finPc = "none"
    /\ finEof = FALSE
    /\ quitClosed = FALSE
    /\ resultsClosed = FALSE
    /\ stopClosed = FALSE
    /\ fhPc = "select"
    /\ hit = 0
    /\ satisfied = FALSE
    /\ waitList = [nil |-> TRUE, list |-> << >>]
    /\ consPc = "recv"
    /\ consRes = 0
    /\ Priorities = [g \in Sigs |-> Unset]
    /\ reported = << >>
    /\ waitsRead = 0
    /\ emptied = FALSE

\* --------------------------------------------------------- tally: actions

\* the matcher starts a strike goroutine for an incoming strike (queue.Add(1));
\* the goroutine sends kfHit{id: g}, reads t.halt and finishes (queue.Done())
Spawn(g) ==
    /\ incomingOpen
    /\ spawned < NStrike
    /\ spawned' = spawned + 1
    /\ pending' = [pending EXCEPT ![g] = @ + 1]
    /\ UNCHANGED << awaitHalt, incomingOpen, shutdownReq, onceDone, finPc, finEof,
                    quitClosed, resultsClosed, stopClosed, fhPc, hit, satisfied,
                    waitList, consPc, consRes, Priorities, reported, waitsRead,
                    emptied >>
    /\ UNCHANGED tallyRest

\* the scanners are done (end of input, or quit): incoming is closed and the
\* matcher, seeing it closed, calls t.shutdown(true)
CloseIncoming ==
    /\ incomingOpen
    /\ incomingOpen' = FALSE
    /\ shutdownReq' = shutdownReq \cup {TRUE}
    /\ UNCHANGED << spawned, pending, awaitHalt, onceDone, finPc, finEof,
                    quitClosed, resultsClosed, stopClosed, fhPc, hit, satisfied,
                    waitList, consPc, consRes, Priorities, reported, waitsRead,
                    emptied >>
    /\ UNCHANGED tallyRest

\* a shutdown without the sync.Once: every call runs finalise
OnceDoAgain(e) ==
    /\ e \in shutdownReq
    /\ shutdownReq' = shutdownReq \ {e}
    /\ onceDone' = TRUE
    /\ finEof' = e
    /\ finPc' = IF e THEN "wait56" ELSE "close59"
    /\ UNCHANGED << spawned, pending, awaitHalt, incomingOpen, quitClosed,
                    resultsClosed, stopClosed, fhPc, hit, satisfied, waitList,
                    consPc, consRes, Priorities, reported, waitsRead, emptied >>
    /\ UNCHANGED tallyRest

\* tally.shutdown: go t.once.Do(func() { t.finalise(eof) })
OnceDo(e) ==
    /\ e \in shutdownReq
    /\ shutdownReq' = shutdownReq \ {e}
    /\ IF onceDone
       THEN UNCHANGED << onceDone, finPc, finEof >>
       ELSE /\ onceDone' = TRUE
            /\ finEof' = e
            /\ finPc' = IF e THEN "wait56" ELSE "close59"
    /\ UNCHANGED << spawned, pending, awaitHalt, incomingOpen, quitClosed,
                    resultsClosed, stopClosed, fhPc, hit, satisfied, waitList,
                    consPc, consRes, Priorities, reported, waitsRead, emptied >>
    /\ UNCHANGED tallyRest

\* tally.finalise, one step
Finalise ==
    /\ \/ /\ finPc = "wait56"
          /\ QueueEmpty
          /\ finPc' = "close59"
          /\ UNCHANGED << quitClosed, resultsClosed, stopClosed >>
       \/ /\ finPc = "close59"
          /\ quitClosed' = TRUE
          /\ finPc' = "drain60"
          /\ UNCHANGED << resultsClosed, stopClosed >>
       \/ /\ finPc = "drain60"
          /\ ~incomingOpen
          /\ finPc' = IF finEof THEN "close65" ELSE "wait62"
          /\ UNCHANGED << quitClosed, resultsClosed, stopClosed >>
       \/ /\ finPc = "wait62"
          /\ QueueEmpty
          /\ finPc' = "close65"
          /\ UNCHANGED << quitClosed, resultsClosed, stopClosed >>
       \/ /\ finPc = "close65"
          /\ resultsClosed' = TRUE
          /\ finPc' = "close66"
          /\ UNCHANGED << quitClosed, stopClosed >>
       \/ /\ finPc = "close66"
          /\ stopClosed' = TRUE
          /\ finPc' = "done"
          /\ UNCHANGED << quitClosed, resultsClosed >>
    /\ UNCHANGED << spawned, pending, awaitHalt, incomingOpen, shutdownReq, onceDone,
                    finEof, fhPc, hit, satisfied, waitList, consPc, consRes,
                    Priorities, reported, waitsRead, emptied >>
    /\ UNCHANGED tallyRest

\* filterHits: case _ = <-t.stop: return
FilterStop ==
    /\ fhPc = "select"
    /\ stopClosed
    /\ fhPc' = "returned"
    /\ UNCHANGED << spawned, pending, awaitHalt, incomingOpen, shutdownReq, onceDone,
                    finPc, finEof, quitClosed, resultsClosed, stopClosed, hit,
                    satisfied, waitList, consPc, consRes, Priorities, reported,
                    waitsRead, emptied >>
    /\ UNCHANGED tallyRest

\* filterHits: case hit := <-t.kfHits, up to the call of applyKeyFrame
FilterHit(g) ==
    /\ fhPc = "select"
    /\ pending[g] > 0
    /\ pending' = [pending EXCEPT ![g] = @ - 1]
    /\ awaitHalt' = awaitHalt + 1
    /\ hit' = g
    /\ fhPc' = IF satisfied THEN satisfiedReply
               ELSE IF ~checkWait(waitList, g) THEN "halt104"
               ELSE "apply107"
    /\ UNCHANGED << spawned, incomingOpen, shutdownReq, onceDone, finPc,
                    finEof, quitClosed, resultsClosed, stopClosed, satisfied,
                    waitList, consPc, consRes, Priorities, reported, waitsRead,
                    emptied >>
    /\ UNCHANGED tallyRest

\* success := t.applyKeyFrame(...): whether the hit completes its signature
ApplyKeyFrame ==
    /\ fhPc = "apply107"
    /\ \E success \in BOOLEAN : fhPc' = IF success THEN "send122" ELSE "halt116"
    /\ UNCHANGED << spawned, pending, awaitHalt, incomingOpen, shutdownReq, onceDone,
                    finPc, finEof, quitClosed, resultsClosed, stopClosed, hit,
                    satisfied, waitList, consPc, consRes, Priorities, reported,
                    waitsRead, emptied >>
    /\ UNCHANGED tallyRest

\* sendResult: t.results <- res, received by the consumer's range loop; a
\* send on the closed channel panics
SendResult ==
    /\ fhPc = "send122"
    /\ IF resultsClosed
       THEN /\ fhPc' = "panic"
            /\ UNCHANGED << reported, consRes, consPc >>
       ELSE /\ consPc = "recv"
            /\ reported' = Append(reported, hit)
            /\ consRes' = hit
            /\ consPc' = "reply"
            /\ fhPc' = sendThenWait
    /\ UNCHANGED << spawned, pending, awaitHalt, incomingOpen, shutdownReq, onceDone,
                    finPc, finEof, quitClosed, resultsClosed, stopClosed, hit,
                    satisfied, waitList, Priorities, waitsRead, emptied >>
    /\ UNCHANGED tallyRest

\* sendResult: w := <-t.wait, sent by the consumer (wait <- Priorities[result]),
\* then the test of len(w) and setWait
RecvWait(w) ==
    /\ fhPc = "wait123"
    /\ consPc = "reply"
    /\ Priorities[consRes] \in {Unset, w}
    /\ Priorities' = [Priorities EXCEPT ![consRes] = w]
    /\ consPc' = "recv"
    /\ waitsRead' = waitsRead + 1
    /\ emptied' = (emptied \/ Len(w) = 0)
    /\ IF sendResultDone(w)
       THEN /\ fhPc' = "halt110"
            /\ UNCHANGED waitList
       ELSE /\ fhPc' = "halt116"
            /\ waitList' = [nil |-> FALSE, list |-> w]
    /\ UNCHANGED << spawned, pending, awaitHalt, incomingOpen, shutdownReq, onceDone,
                    finPc, finEof, quitClosed, resultsClosed, stopClosed, hit,
                    satisfied, consRes, reported >>
    /\ UNCHANGED tallyRest

\* filterHits: t.halt <- v, received by a strike goroutine blocked in <-t.halt,
\* which then finishes (queue.Done()); after line 110: satisfied = true and
\* t.shutdown(false)
Halt ==
    /\ fhPc \in HaltPcs
    /\ awaitHalt > 0
    /\ awaitHalt' = awaitHalt - 1
    /\ fhPc' = "select"
    /\ IF fhPc = "halt110"
       THEN /\ satisfied' = TRUE
            /\ shutdownReq' = shutdownReq \cup {FALSE}
       ELSE UNCHANGED << satisfied, shutdownReq >>
    /\ UNCHANGED << spawned, pending, incomingOpen, onceDone, finPc, finEof, quitClosed,
                    resultsClosed, stopClosed, hit, waitList, consPc, consRes,
                    Priorities, reported, waitsRead, emptied >>
    /\ UNCHANGED tallyRest

\* a consumer that takes a result and never supplies a wait-list
Abandon ==
    /\ consPc = "reply"
    /\ consPc' = "abandoned"
    /\ UNCHANGED << spawned, pending, awaitHalt, incomingOpen, shutdownReq, onceDone,
                    finPc, finEof, quitClosed, resultsClosed, stopClosed, fhPc, hit,
                    satisfied, waitList, consRes, Priorities, reported, waitsRead,
                    emptied >>
    /\ UNCHANGED tallyRest

\* the consumer's range loop ends when the results channel is closed
ConsumerDone ==
    /\ consPc = "recv"
    /\ resultsClosed
    /\ consPc' = "finished"
    /\ UNCHANGED << spawned, pending, awaitHalt, incomingOpen, shutdownReq, onceDone,
                    finPc, finEof, quitClosed, resultsClosed, stopClosed, fhPc, hit,
                    satisfied, waitList, consRes, Priorities, reported, waitsRead,
                    emptied >>
    /\ UNCHANGED tallyRest

TallyNext ==
    \/ \E g \in Sigs : Spawn(g)
    \/ CloseIncoming
    \/ \E e \in BOOLEAN : OnceDo(e)
    \/ Finalise
    \/ FilterStop
    \/ \E g \in Sigs : FilterHit(g)
    \/ ApplyKeyFrame
    \/ SendResult
    \/ \E w \in SortedLists : RecvWait(w)
    \/ Halt
    \/ Abandon
    \/ ConsumerDone

\* ------------------------------------------- container matcher: pure parts

\* a part of a container signature: an entry name, with or without an inner
\* byte signature
PartSet == [name : Names, byte : BOOLEAN]

\* the part lists AddSignature is given
PartLists == UNION { [1 .. n -> PartSet] : n \in 1 .. MaxTotalParts }

\* the signature indexes: 0 .. len(c.Parts)-1
CSigs == 0 .. (Len(cParts) - 1)

\* the wait-lists of c.Priorities: sorted ascending
CSortedLists == { SetToSortedSeq(S) : S \in SUBSET CSigs }

RECURSIVE Sum(_)
Sum(q) == IF q = << >> THEN 0 ELSE Head(q) + Sum(Tail(q))

RECURSIVE addParts(_, _, _, _)
\* AddSignature's loop over its names: the part k of signature s joins the ctest
\* of its name, in Satisfied when it has no byte signature, else in Unsatisfied
addParts(ct, pl, s, k) ==
    IF k > Len(pl) THEN ct
    ELSE LET p == [sig |-> s, k |-> k]
             n == pl[k].name
         IN  addParts([ct EXCEPT ![n] =
                           IF pl[k].byte
                           THEN [@ EXCEPT !.Unsatisfied = Append(@, p)]
                           ELSE [@ EXCEPT !.Satisfied = Append(@, p)]],
                      pl, s, k + 1)

\* ct.Satisfied and ct.Unsatisfied of the ctest of a name: signature indexes
Satisfied(name) ==
    [i \in 1 .. Len(NameCTest[name].Satisfied) |-> NameCTest[name].Satisfied[i].sig]
Unsatisfied(name) ==
    [i \in 1 .. Len(NameCTest[name].Unsatisfied) |-> NameCTest[name].Unsatisfied[i].sig]

\* ct, ok := c.NameCTest[name]
HasCTest(name) == Len(Satisfied(name)) + Len(Unsatisfied(name)) > 0

\* what the inner byte matcher of an entry named name can report: indexes into
\* Unsatisfied, in ascending order
BMResults(name) ==
    { SetToSortedSeq(S) : S \in SUBSET (0 .. (Len(Unsatisfied(name)) - 1)) }

\* a ContainerMatcher.checkWait that ignores the wait list
cCheckWaitAdmitAll(w, i) == TRUE

\* ContainerMatcher.checkWait
cCheckWait(w, i) ==
    IF w.nil THEN TRUE
    ELSE LET idx == SearchInts(w.list, i)
         IN  ~(idx = Len(w.list) \/ w.list[idx + 1] # i)

\* ContainerMatcher.checkHits: no hit of signature i among the entry's hits yet
checkHits(hits, i) == \A n \in 1 .. Len(hits) : hits[n] # i

RECURSIVE bmHits(_, _, _, _)
\* CTest.identify, the loop over the inner byte matcher's results
bmHits(w, unsat, bm, hits) ==
    IF bm = << >> THEN hits
    ELSE LET h == unsat[Head(bm) + 1]
         IN  bmHits(w, unsat, Tail(bm),
                    IF cCheckWait(w, h) /\ checkHits(hits, h)
                    THEN Append(hits, h) ELSE hits)

\* CTest.identify: the signatures hit by the entry
ctIdentify(w, name, bm) ==
    bmHits(w, Unsatisfied(name), bm,
           SelectSeq(Satisfied(name), LAMBDA h : cCheckWait(w, h)))

\* the parts <<sig, k>> that an entry named name matches, bm being what the
\* inner byte matcher reports of its bytes
PartsMatching(name, bm) ==
    { << NameCTest[name].Satisfied[i].sig, NameCTest[name].Satisfied[i].k >> :
          i \in 1 .. Len(NameCTest[name].Satisfied) }
    \cup { << NameCTest[name].Unsatisfied[i + 1].sig, NameCTest[name].Unsatisfied[i + 1].k >> :
          i \in Range(bm) }

\* res <- result(c.partsMatched[h.id]), with the wait list it passed and the
\* list of c.Priorities read after it
sent(h, wl, prio) == [id |-> h, wl |-> wl, prio |-> prio]

RECURSIVE hitsLoop(_, _, _)
\* processHits, its loop over the hits. st is the matcher's state on the way:
\* pm = partsMatched, wl = waitList, rep = the results sent, ret = it has
\* returned true. The list c.Priorities[h.id] is any sorted list: the outcomes
\* are a set.
hitsLoop(hits, name, st) ==
    IF hits = << >> THEN { st }
    ELSE LET h == Head(hits)
             pm == [st.pm EXCEPT ![h] = Append(@, name)]
         IN  IF ~(Len(pm[h]) = cParts[h + 1] /\ cCheckWait(st.wl, h))
             THEN hitsLoop(Tail(hits), name, [st EXCEPT !.pm = pm])
             ELSE IF cPrioNil
             THEN hitsLoop(Tail(hits), name,
                           [st EXCEPT !.pm = pm,
                                      !.rep = Append(@, sent(h, st.wl, << >>))])
             ELSE UNION { IF Len(w) = 0
                          THEN { [st EXCEPT !.pm = pm,
                                            !.rep = Append(@, sent(h, st.wl, w)),
                                            !.ret = TRUE] }
                          ELSE hitsLoop(Tail(hits), name,
                                        [st EXCEPT !.pm = pm,
                                                   !.rep = Append(@, sent(h, st.wl, w)),
                                                   !.wl = [nil |-> FALSE, list |-> w]])
                          : w \in CSortedLists }

\* processHits' test of a signature of the ctest: no hit of it from this entry
NotHitHere(pm, v, name) == Len(pm[v]) = 0 \/ pm[v][Len(pm[v])] # name

\* processHits, last loop: satisfied unless a signature on the wait list lives
AllRuledOut(w, ro) == \A n \in 1 .. Len(w.list) : ro[w.list[n]]

\* the signatures of a ctest
CTestSigs(name) == Range(Satisfied(name)) \cup Range(Unsatisfied(name))

\* processHits after its loop over the hits: st with ro = ruledOut and
\* ret = the value returned
afterLoop(nhits, name, st) ==
    IF st.ret THEN st
    ELSE IF nhits = Len(Satisfied(name)) + Len(Unsatisfied(name)) THEN st
    ELSE LET ro == [v \in CSigs |->
                      IF v \in CTestSigs(name) /\ NotHitHere(st.pm, v, name)
                      THEN TRUE ELSE st.ro[v]]
         IN  [st EXCEPT !.ro = ro, !.ret = AllRuledOut(st.wl, ro)]

\* processHits: the states it can leave the matcher in
processHits(hits, name) ==
    LET st == [pm |-> partsMatched, wl |-> cWaitList, rep |-> cReported,
               ro |-> ruledOut, ret |-> FALSE]
    IN  IF Len(hits) = 0
        THEN { [st EXCEPT !.ro = [v \in CSigs |->
                                     IF v \in CTestSigs(name) THEN TRUE ELSE ruledOut[v]]] }
        ELSE { afterLoop(Len(hits), name, o) : o \in hitsLoop(hits, name, st) }

\* ------------------------------------------------ container matcher: Init

\* a new container matcher, no signature added yet
ContInit ==
    /\ cParts = << >>
    /\ NameCTest = [n \in Names |-> [Satisfied |-> << >>, Unsatisfied |-> << >>]]
    /\ cPrioNil = TRUE
    /\ cWaitList = [nil |-> TRUE, list |-> << >>]
    /\ partsMatched = << >>
    /\ ruledOut = << >>
    /\ cPc = "build"
    /\ cReported = << >>
    /\ nEntries = 0
    /\ matchedRead = {}
    /\ matchedAll = {}

\* --------------------------------------------- container matcher: actions

\* AddSignature(names, sigs): the signature gets the next index
AddSignature(pl) ==
    /\ cPc = "build"
    /\ Sum(cParts) + Len(pl) <= MaxTotalParts
    /\ cParts' = Append(cParts, Len(pl))
    /\ NameCTest' = addParts(NameCTest, pl, Len(cParts), 1)
    /\ UNCHANGED << cPrioNil, cWaitList, partsMatched, ruledOut, cPc, cReported,
                    nEntries, matchedRead, matchedAll >>
    /\ UNCHANGED contRest

\* the priorities are set or left nil, and identify starts: its (re)set of
\* waitList, partsMatched and ruledOut
StartScan(prioNil) ==
    /\ cPc = "build"
    /\ cParts # << >>
    /\ cPrioNil' = prioNil
    /\ cWaitList' = [nil |-> TRUE, list |-> << >>]
    /\ partsMatched' = [s \in CSigs |-> << >>]
    /\ ruledOut' = [s \in CSigs |-> FALSE]
    /\ cPc' = "next"
    /\ UNCHANGED << cParts, NameCTest, cReported, nEntries, matchedRead, matchedAll >>
    /\ UNCHANGED contRest

\* identify, one turn of its loop: rdr.Next() yields an entry, its name is
\* looked up, ct.identify collects its hits and processHits handles them;
\* when processHits returns true the loop breaks and res is closed
ReadEntry(name, bm) ==
    /\ cPc = "next"
    /\ nEntries < MaxEntries
    /\ nEntries' = nEntries + 1
    /\ matchedRead' = matchedRead \cup PartsMatching(name, bm)
    /\ matchedAll' = matchedAll \cup PartsMatching(name, bm)
    /\ IF ~HasCTest(name)
       THEN UNCHANGED << cWaitList, partsMatched, ruledOut, cPc, cReported >>
       ELSE \E o \in processHits(ctIdentify(cWaitList, name, bm), name) :
                /\ partsMatched' = o.pm
                /\ cWaitList' = o.wl
                /\ cReported' = o.rep
                /\ ruledOut' = o.ro
                /\ cPc' = IF o.ret THEN "broke" ELSE "next"
    /\ UNCHANGED << cParts, NameCTest, cPrioNil >>
    /\ UNCHANGED contRest

\* rdr.Next() returns an error: the loop ends and res is closed
EndOfEntries ==
    /\ cPc = "next"
    /\ cPc' = "ended"
    /\ UNCHANGED << cParts, NameCTest, cPrioNil, cWaitList, partsMatched, ruledOut,
                    cReported, nEntries, matchedRead, matchedAll >>
    /\ UNCHANGED contRest

\* an entry of the container that the scan, having ended early, never reads
UnreadEntry(name, bm) ==
    /\ cPc = "broke"
    /\ nEntries < MaxEntries
    /\ nEntries' = nEntries + 1
    /\ matchedAll' = matchedAll \cup PartsMatching(name, bm)
    /\ UNCHANGED << cParts, NameCTest, cPrioNil, cWaitList, partsMatched, ruledOut,
                    cPc, cReported, matchedRead >>
    /\ UNCHANGED contRest

ContNext ==
    \/ \E pl \in PartLists : AddSignature(pl)
    \/ \E prioNil \in BOOLEAN : StartScan(prioNil)
    \/ \E name \in Names : \E bm \in BMResults(name) : ReadEntry(name, bm)
    \/ EndOfEntries
    \/ \E name \in Names : \E bm \in BMResults(name) : UnreadEntry(name, bm)

\* --------------------------------------------------- recorder: pure parts

\* the format IDs of the identifier; config.TextPuid() and config.ZipPuid()
\* are two of them
TextPuid == "x-fmt/111"
ZipPuid == "x-fmt/263"
Formats == {"fmt/1", TextPuid, ZipPuid}

\* the matcher types Record and Satisfied are called with
RecordTypes == {"name", "mime", "container", "byte", "text"}
MatcherTypes == RecordTypes \cup {"xml"}

RECURSIVE indexOf(_, _, _)
\* add's loop: the first index i >= k with p[i].ID = f, or 0
indexOf(p, f, k) ==
    IF k > Len(p) THEN 0
    ELSE IF p[k].ID = f THEN k
    ELSE indexOf(p, f, k + 1)

\* an add that appends without looking for the format ID
addAlwaysAppends(p, f, basis, c) ==
    Append(p, [ID |-> f, Basis |-> << basis >>, Warning |-> "", confidence |-> c])

\* add: a format already in p has c summed into its confidence and the basis
\* appended, else a new identification is appended
add(p, f, basis, c) ==
    LET i == indexOf(p, f, 1)
    IN  IF i > 0
        THEN [p EXCEPT ![i] = [@ EXCEPT !.confidence = @ + c,
                                        !.Basis = Append(@, basis)]]
        ELSE Append(p, [ID |-> f, Basis |-> << basis >>, Warning |-> "",
                        confidence |-> c])

\* a score that doubles with every hit
doubledScore(c) == IF c = 0 THEN incScore ELSE 2 * c

\* r.cscore += incScore
nextScore(c) == c + incScore

\* pids.Less
Less(p, i, j) == p[j].confidence < p[i].confidence

\* the permutations of 1 .. n, for every length r.ids can have
PermsOf ==
    [n \in 0 .. MaxRecords |->
        { q \in [1 .. n -> 1 .. n] : \A i, j \in 1 .. n : i # j => q[i] # q[j] }]
Perms(n) == PermsOf[n]

\* sort.Sort(r.ids): any arrangement of p in which no later element is Less
\* than an earlier one (the sort is not stable)
Sorted(p) ==
    { s \in { [i \in 1 .. Len(p) |-> p[q[i]]] : q \in Perms(Len(p)) } :
          \A i, j \in 1 .. Len(s) : i < j => ~Less(s, j, i) }

\* conf&score == score, for a score that is a power of two
hasScore(conf, score) == (conf \div score) % 2 = 1

RECURSIVE bitOr(_, _)
\* a | b
bitOr(a, b) ==
    IF a = 0 THEN b
    ELSE IF b = 0 THEN a
    ELSE 2 * bitOr(a \div 2, b \div 2) + (IF a % 2 = 1 \/ b % 2 = 1 THEN 1 ELSE 0)

RECURSIVE Join(_, _)
\* strings.Join(ls, sep)
Join(ls, sep) ==
    IF Len(ls) = 0 THEN ""
    ELSE IF Len(ls) = 1 THEN ls[1]
    ELSE ls[1] \o sep \o Join(Tail(ls), sep)

\* lowConfidence(conf): the kinds of evidence in conf, in words
lowConfidence(conf) ==
    LET ls == (IF hasScore(conf, extScore) THEN << "extension" >> ELSE << >>)
              \o (IF hasScore(conf, mimeScore) THEN << "MIME" >> ELSE << >>)
              \o (IF hasScore(conf, textScore) THEN << "text" >> ELSE << >>)
    IN  CASE Len(ls) = 0 -> ""
          [] Len(ls) = 1 -> ls[1]
          [] Len(ls) = 2 -> ls[1] \o " and " \o ls[2]
          [] OTHER -> Join(SubSeq(ls, 1, Len(ls) - 1), ", ") \o " and " \o ls[Len(ls)]

\* a warning w with one more text: joined by "; " when w is not empty
addWarning(w, text) == IF w # "" THEN w \o "; " \o text ELSE text

\* the synthetic identification of Report
Unknown(warning) ==
    [ID |-> "UNKNOWN", Basis |-> << >>, Warning |-> warning, confidence |-> 0]

\* a Report that sends nothing when there is no candidate
noMatchSilent == << >>
\* Report with no candidate: what is sent
noMatch == << Unknown("no match") >>

RECURSIVE possConf(_, _, _)
\* Report's loop over r.ids when nids is not a single match: conf | v.confidence
possConf(p, k, conf) ==
    IF k > Len(p) THEN conf ELSE possConf(p, k + 1, bitOr(conf, p[k].confidence))

\* the UNKNOWN of the low-confidence branch, naming the possibilities
possibilities(p) ==
    Unknown("no match; possibilities based on "
            \o lowConfidence(possConf(p, 1, p[1].confidence))
            \o " are " \o Join([i \in 1 .. Len(p) |-> p[i].ID], ", "))

RECURSIVE lowLoop(_, _, _, _, _, _)
\* Report's loop when conf <= textScore: nids, the matches with no byte or
\* container signature; has = the formats hasSig is true of
lowLoop(p, k, nids, conf, has, textOn) ==
    IF k > Len(p) THEN nids
    ELSE LET v == p[k]
         IN  IF conf > mimeScore /\ v.confidence # conf THEN nids
             ELSE IF v.ID = TextPuid /\ conf < textScore /\ textOn
             THEN lowLoop(p, k + 1, nids, conf, has, textOn)
             ELSE IF v.ID \notin has
             THEN IF Len(nids) > 0 THEN << >>
                  ELSE lowLoop(p, k + 1,
                               Append(nids, [v EXCEPT !.Warning =
                                   addWarning(@, "match on "
                                                 \o lowConfidence(v.confidence)
                                                 \o " only")]),
                               conf, has, textOn)
             ELSE lowLoop(p, k + 1, nids, conf, has, textOn)

\* a low-confidence branch that always answers UNKNOWN
lowIdsAlwaysUnknown(p, has, textOn) == << possibilities(p) >>

\* Report, the branch conf <= textScore: the new r.ids
lowIds(p, has, textOn) ==
    LET nids == lowLoop(p, 1, << >>, p[1].confidence, has, textOn)
    IN  IF Len(nids) # 1 THEN << possibilities(p) >> ELSE nids

\* a test that lets every later identification through
reportMoreAlways(v, conf, noPrio) == TRUE

\* Report's test of the identifications after the first
reportMore(v, conf, noPrio) ==
    v.confidence = conf \/ (noPrio /\ v.confidence >= incScore)

RECURSIVE sendMore(_, _, _, _)
\* Report's loop over r.ids[1:]: send until the test fails
sendMore(p, k, conf, noPrio) ==
    IF k > Len(p) THEN << >>
    ELSE IF reportMore(p[k], conf, noPrio)
    THEN << p[k] >> \o sendMore(p, k + 1, conf, noPrio)
    ELSE << >>

\* a test that finds no mismatch
mismatchNever(i, active, score, ids) == FALSE

\* checkActive's test for one matcher: the matcher is active, i has no score
\* of it, and i.ID is one of the matcher's IDs
mismatch(i, active, score, ids) ==
    active /\ ~hasScore(i.confidence, score) /\ i.ID \in ids

\* checkActive(i); act = [extActive, extIDs, mimeActive, mimeIDs], the flags
\* r.extActive and r.mimeActive and the IDs of the name and MIME matchers
checkActive(i, act) ==
    LET e == IF mismatch(i, act.extActive, extScore, act.extIDs)
             THEN [i EXCEPT !.Warning = addWarning(@, "extension mismatch")]
             ELSE i
    IN  IF mismatch(e, act.mimeActive, mimeScore, act.mimeIDs)
        THEN [e EXCEPT !.Warning = addWarning(@, "MIME mismatch")]
        ELSE e

\* Report with r.ids sorted as s: r.ids afterwards, and what is sent on res
reportIds(s, has, textOn) ==
    IF s[1].confidence <= textScore THEN lowIds(s, has, textOn) ELSE s
reportSent(s, has, textOn, noPrio, act) ==
    LET p == reportIds(s, has, textOn)
        q == << p[1] >> \o sendMore(p, 2, s[1].confidence, noPrio)
    IN  [i \in 1 .. Len(q) |-> checkActive(q[i], act)]

\* the return value of a call
ret(call, m, ok, start) == [call |-> call, m |-> m, ok |-> ok, start |-> start]

\* ------------------------------------------------------------ recorder: Init

\* Identifier.Recorder()
RecInit ==
    /\ rIds = << >>
    /\ cscore = 0
    /\ rSatisfied = FALSE
    /\ rPc = "record"
    /\ nRecords = 0
    /\ rInserted = << >>
    /\ rSorted = << >>
    /\ rNoPriority = FALSE
    /\ rReported = << >>
    /\ rConfig = [has |-> {}, textActive |-> FALSE, extActive |-> FALSE,
                  extIDs |-> {}, mimeActive |-> FALSE, mimeIDs |-> {}]
    /\ rRet = ret("", "", FALSE, 0)

\* --------------------------------------------------------- recorder: actions

\* the formats of r.ids, and those with a hit of matcher type m
PresentIDs == { rIds[i].ID : i \in DOMAIN rIds }
WithBasis(m) == { rIds[i].ID : i \in { j \in DOMAIN rIds : m \in Range(rIds[j].Basis) } }

\* the hits a scan can bring: the text matcher has one result, the text
\* format, and the name, MIME and text matchers report a format once
CanHit(m, f) ==
    /\ m = "text" => f = TextPuid
    /\ m \in {"name", "mime", "text"} => f \notin WithBasis(m)

\* Record(m, res) with a result that r.Hit maps to the format f
Record(m, f) ==
    /\ rPc = "record"
    /\ nRecords < MaxRecords
    /\ nRecords' = nRecords + 1
    /\ CASE m = "name" ->
              /\ rIds' = add(rIds, f, m, extScore)
              /\ UNCHANGED cscore
         [] m = "mime" ->
              /\ rIds' = add(rIds, f, m, mimeScore)
              /\ UNCHANGED cscore
         [] m = "container" ->
              /\ cscore' = nextScore(cscore)
              /\ rIds' = add(rIds, f, m, nextScore(cscore))
         [] m = "byte" ->
              IF rSatisfied THEN UNCHANGED << rIds, cscore >>
              ELSE /\ cscore' = nextScore(cscore)
                   /\ rIds' = add(rIds, f, m, nextScore(cscore))
         [] m = "text" ->
              IF rSatisfied THEN UNCHANGED << rIds, cscore >>
              ELSE /\ rIds' = add(rIds, f, m, textScore)
                   /\ UNCHANGED cscore
    /\ rRet' = ret("Record", m, TRUE, 0)
    /\ UNCHANGED << rSatisfied, rPc, rInserted, rSorted, rNoPriority, rReported,
                    rConfig >>
    /\ UNCHANGED recRest

\* a Record that adds to the running score before it tests the index
RecordMissScores(m) ==
    /\ rPc = "record"
    /\ cscore' = IF m \in {"container", "byte"} THEN nextScore(cscore) ELSE cscore
    /\ rRet' = ret("Record", m, FALSE, 0)
    /\ UNCHANGED << rIds, rSatisfied, rPc, nRecords, rInserted, rSorted,
                    rNoPriority, rReported, rConfig >>
    /\ UNCHANGED recRest

\* Record(m, res) with a matcher type of the default case, or a result that
\* r.Hit does not map to a format of this identifier, or a result of the
\* container matcher with res.Index() < 0 when ZipDefault is not set
RecordMiss(m) ==
    /\ rPc = "record"
    /\ rRet' = ret("Record", m, FALSE, 0)
    /\ UNCHANGED << rIds, cscore, rSatisfied, rPc, nRecords, rInserted, rSorted,
                    rNoPriority, rReported, rConfig >>
    /\ UNCHANGED recRest

\* Record(ContainerMatcher, res) with res.Index() < 0 and ZipDefault set
RecordZipDefault ==
    /\ rPc = "record"
    /\ nRecords < MaxRecords
    /\ nRecords' = nRecords + 1
    /\ cscore' = nextScore(cscore)
    /\ rIds' = add(rIds, ZipPuid, "container", nextScore(cscore))
    /\ rRet' = ret("Record", "container", FALSE, 0)
    /\ UNCHANGED << rSatisfied, rPc, rInserted, rSorted, rNoPriority, rReported,
                    rConfig >>
    /\ UNCHANGED recRest

\* a test that looks for the text format only when it is the one candidate
declinesOnlyText(mt) ==
    /\ cscore < incScore
    /\ \/ mt \in {"byte", "xml"}
       \/ Len(rIds) = 0
       \/ Len(rIds) = 1 /\ rIds[1].ID = TextPuid

\* Satisfied(mt): the test under which it returns false, 0
declines(mt) ==
    /\ cscore < incScore
    /\ \/ mt \in {"byte", "xml"}
       \/ Len(rIds) = 0
       \/ \E i \in DOMAIN rIds : rIds[i].ID = TextPuid

\* Satisfied(mt); bstart is r.Start(ByteMatcher)
RecSatisfied(mt, bstart) ==
    /\ rPc = "record"
    /\ IF declines(mt)
       THEN /\ rRet' = ret("Satisfied", mt, FALSE, 0)
            /\ UNCHANGED rSatisfied
       ELSE /\ rSatisfied' = TRUE
            /\ rRet' = ret("Satisfied", mt, TRUE, IF mt = "byte" THEN bstart ELSE 0)
    /\ UNCHANGED << rIds, cscore, rPc, nRecords, rInserted, rSorted, rNoPriority,
                    rReported, rConfig >>
    /\ UNCHANGED recRest

\* Report(res); s is r.ids as sort.Sort leaves it, has the formats with a byte
\* or container signature, textOn = r.textActive, noPrio = r.NoPriority(),
\* act the active flags and the IDs of the name and MIME matchers
Report(s, has, textOn, noPrio, act) ==
    /\ rPc = "record"
    /\ rPc' = "reported"
    /\ rInserted' = rIds
    /\ rNoPriority' = noPrio
    /\ rConfig' = [has |-> has, textActive |-> textOn,
                   extActive |-> act.extActive, extIDs |-> act.extIDs,
                   mimeActive |-> act.mimeActive, mimeIDs |-> act.mimeIDs]
    /\ rRet' = ret("Report", "", TRUE, 0)
    /\ IF Len(rIds) > 0
       THEN /\ s \in Sorted(rIds)
            /\ rSorted' = s
            /\ rIds' = reportIds(s, has, textOn)
            /\ rReported' = reportSent(s, has, textOn, noPrio, act)
       ELSE /\ s = << >>
            /\ rSorted' = << >>
            /\ rReported' = noMatch
            /\ UNCHANGED rIds
    /\ UNCHANGED << cscore, rSatisfied, nRecords >>
    /\ UNCHANGED recRest

\* the configurations Report can find: hasSig and r.textActive are read only
\* when the top confidence is at most textScore, and of the formats of r.ids
ReportHigh == \E i \in DOMAIN rIds : rIds[i].confidence > textScore
HasSigs == IF ReportHigh THEN { {} } ELSE SUBSET PresentIDs
TextActive ==
    IF ReportHigh \/ TextPuid \notin PresentIDs \/ WithBasis("text") # {}
    THEN { FALSE } ELSE BOOLEAN

\* a matcher's active flag and its IDs among the formats of r.ids: a format
\* with a hit of the matcher is one of its IDs, and the matcher was active;
\* the other formats of r.ids are all among its IDs, or none of them is
ActiveIDs(m) ==
    { << TRUE, ids >> : ids \in { WithBasis(m), PresentIDs } }
    \cup (IF WithBasis(m) = {} THEN { << FALSE, PresentIDs >> } ELSE {})

\* r.NoPriority() is read when a second candidate is tested
NoPriorities == IF ReportHigh /\ Len(rIds) > 1 THEN BOOLEAN ELSE { FALSE }
Actives ==
    { [extActive |-> e[1], extIDs |-> e[2], mimeActive |-> m[1], mimeIDs |-> m[2]] :
          e \in ActiveIDs("name"), m \in ActiveIDs("mime") }

\* the values of r.Start(ByteMatcher)
Starts == {0, 1}

\* the matcher types Satisfied is called with where the reports are studied:
\* one that declines until there is a byte or container hit, one that does not
SatisfiedTypes == {"byte", "name"}

\* the recorder's calls up to Report, under every configuration Report can find
RecNext ==
    \/ \E m \in RecordTypes : \E f \in Formats : CanHit(m, f) /\ Record(m, f)
    \/ RecordZipDefault
    \/ \E mt \in SatisfiedTypes : RecSatisfied(mt, 0)
    \/ \E s \in Sorted(rIds) \cup {<< >>} : \E has \in HasSigs :
           \E textOn \in TextActive : \E noPrio \in NoPriorities : \E act \in Actives :
               Report(s, has, textOn, noPrio, act)

\* an identifier with priorities, no byte or container signature of the
\* formats recorded, and no active name or MIME matcher for the mismatch test
PlainActive ==
    [extActive |-> FALSE, extIDs |-> PresentIDs, mimeActive |-> FALSE,
     mimeIDs |-> PresentIDs]

\* every call of the recorder with every result, hit or not, and Report under
\* the plain configuration
RecCallsNext ==
    \/ \E m \in RecordTypes : \E f \in Formats : CanHit(m, f) /\ Record(m, f)
    \/ \E m \in MatcherTypes : RecordMiss(m)
    \/ RecordZipDefault
    \/ \E mt \in MatcherTypes : \E bstart \in (IF mt = "byte" THEN Starts ELSE {0}) :
           RecSatisfied(mt, bstart)
    \/ \E s \in Sorted(rIds) \cup {<< >>} :
           Report(s, {}, FALSE, FALSE, PlainActive)

\* any sequence of calls of Record: every matcher type with every format its
\* results can stand for, as often as the caller likes
RecordAnyNext ==
    \E m \in RecordTypes : \E f \in Formats :
        (m = "text" => f = TextPuid) /\ Record(m, f)

\* -------------------------------------- PronomIdentifier.Identify: pure parts

\* the identifier of the test: BPuids and EPuids, indexed from 0
BPuids == << "fmt/1", "fmt/2", "fmt/3" >>
EPuids == << "fmt/1", "fmt/2", "fmt/3" >>
PuidIndexes == 0 .. (Len(BPuids) - 1)

\* 10^n
RECURSIVE pow10(_)
pow10(n) == IF n = 0 THEN 1 ELSE 10 * pow10(n - 1)

\* the confidence 0.1 of an extension match, and the first value of cscore
tenth == pow10(MaxResults)

\* cscore *= 1.1; the decimal value is exact for the first MaxResults results,
\* where the float64 of the code is rounded: the values that are compared
\* differ by far more than the rounding
grown(c) == (c * 11) \div 10

RECURSIVE piIndexOf(_, _, _)
\* add's loop: the first index i >= k with p[i].puid = f, or 0
piIndexOf(p, f, k) ==
    IF k > Len(p) THEN 0
    ELSE IF p[k].puid = f THEN k
    ELSE piIndexOf(p, f, k + 1)

\* add of parse.go
piAdd(p, f, basis, c) ==
    LET i == piIndexOf(p, f, 1)
    IN  IF i > 0
        THEN [p EXCEPT ![i] = [@ EXCEPT !.confidence = @ + c,
                                        !.basis = Append(@, basis)]]
        ELSE Append(p, [puid |-> f, basis |-> << basis >>, warning |-> "",
                        confidence |-> c])

RECURSIVE addExtensions(_, _)
\* the loop over ems: one extension match for each index
addExtensions(p, ems) ==
    IF ems = << >> THEN p
    ELSE addExtensions(piAdd(p, EPuids[Head(ems) + 1], "extension match", tenth), Tail(ems))

\* sort.Sort(pi.ids): any arrangement with no later element Less than an
\* earlier one
piSortedOf(p) ==
    { s \in { [i \in 1 .. Len(p) |-> p[q[i]]] : q \in PermsOf[Len(p)] } :
          \A i, j \in 1 .. Len(s) : i < j => ~(s[i].confidence < s[j].confidence) }

RECURSIVE extensionOnly(_, _, _)
\* the loop of the branch conf == 0.1: the identifications with no byte
\* signature (no entry in PuidsB), with their warning
extensionOnly(p, k, puidsB) ==
    IF k > Len(p) THEN << >>
    ELSE IF p[k].puid \notin puidsB
    THEN << [p[k] EXCEPT !.warning = "match on extension only"] >>
         \o extensionOnly(p, k + 1, puidsB)
    ELSE extensionOnly(p, k + 1, puidsB)

\* the UNKNOWN of the branch conf == 0.1
piUnknown(p) ==
    [puid |-> "UNKNOWN", basis |-> << >>,
     warning |-> "no match; possibilities based on extension are "
                 \o Join([i \in 1 .. Len(p) |-> p[i].puid], ", "),
     confidence |-> 0]

\* pi.ids after the branch conf == 0.1
piPruned(s, puidsB) ==
    IF s[1].confidence = tenth
    THEN LET nids == extensionOnly(s, 1, puidsB)
         IN  IF Len(nids) = 0 THEN << piUnknown(s) >> ELSE nids
    ELSE s

RECURSIVE piSendMore(_, _, _)
\* the loop over pi.ids[1:]
piSendMore(p, k, conf) ==
    IF k > Len(p) THEN << >>
    ELSE IF p[k].confidence = conf THEN << p[k] >> \o piSendMore(p, k + 1, conf)
    ELSE << >>

\* ---------------------------------------------- PronomIdentifier.Identify: Init

\* pi.ids = pi.ids[:0]
PiInit ==
    /\ piPc = "name"
    /\ piIds = << >>
    /\ piCscore = tenth
    /\ piResults = << >>
    /\ piSorted = << >>
    /\ piReported = << >>

\* ------------------------------------------- PronomIdentifier.Identify: actions

\* the name matcher's answer ems (no index when the name is empty), and
\* pi.bm.Start() and pi.bm.Identify(b)
NameMatch(ems) ==
    /\ piPc = "name"
    /\ piPc' = "bytes"
    /\ piIds' = addExtensions(piIds, ems)
    /\ UNCHANGED << piCscore, piResults, piSorted, piReported >>
    /\ UNCHANGED piRest

\* one turn of the loop over ids: the result with index i
ByteResult(i) ==
    /\ piPc = "bytes"
    /\ Len(piResults) < MaxResults
    /\ piResults' = Append(piResults, i)
    /\ piCscore' = grown(piCscore)
    /\ piIds' = piAdd(piIds, BPuids[i + 1], "byte match", grown(piCscore))
    /\ UNCHANGED << piPc, piSorted, piReported >>
    /\ UNCHANGED piRest

\* ids is closed: the sort and the sends on c; s is pi.ids as sort.Sort leaves
\* it, puidsB the puids with an entry in pi.PuidsB
PiReport(s, puidsB) ==
    /\ piPc = "bytes"
    /\ piPc' = "reported"
    /\ IF Len(piIds) > 0
       THEN /\ s \in piSortedOf(piIds)
            /\ piSorted' = s
            /\ piIds' = piPruned(s, puidsB)
            /\ piReported' = << piPruned(s, puidsB)[1] >>
                             \o piSendMore(piPruned(s, puidsB), 2, s[1].confidence)
       ELSE /\ s = << >>
            /\ UNCHANGED << piIds, piSorted, piReported >>
    /\ UNCHANGED << piCscore, piResults >>
    /\ UNCHANGED piRest

\* the answers of the name matcher: ascending lists of indexes of EPuids
NameAnswers == { SetToSortedSeq(S) : S \in SUBSET PuidIndexes }

\* the puids with byte signatures: those the byte matcher reported, and any
\* of the others
PuidsBs ==
    { S \cup { BPuids[piResults[k] + 1] : k \in DOMAIN piResults } :
          S \in SUBSET { piIds[i].puid : i \in DOMAIN piIds } }

PiNext ==
    \/ \E ems \in NameAnswers : NameMatch(ems)
    \/ \E i \in PuidIndexes : ByteResult(i)
    \/ \E s \in piSortedOf(piIds) \cup {<< >>} : \E puidsB \in PuidsBs : PiReport(s, puidsB)

\* ------------------------------------------- MIME-info identifier: pure parts

\* the matcher types Add keeps a base index for
AddTypes == {"name", "mime", "xml", "byte", "text"}

\* i.name
miName == "freedesktop.org"

\* the format IDs an identifier adds to a matcher: the first n of these
AllIDs == << "text/plain", "application/zip", "image/png", "application/pdf" >>
IDLists == { SubSeq(AllIDs, 1, n) : n \in 0 .. MaxIDs }

\* what Recognise returns; "panic" stands for the run-time panic of an index
\* out of range
recognised(m, idx, ok, id) == [m |-> m, idx |-> idx, ok |-> ok, id |-> id]

\* the cases of Recognise that subtract the base index
recogniseFrom(m, idx, start, ids) ==
    IF idx >= start /\ idx < start + Len(ids)
    THEN recognised(m, idx, "true", miName \o ": " \o ids[(idx - start) + 1])
    ELSE recognised(m, idx, "false", "")

\* the case core.ByteMatcher of Recognise: i.bids[idx]
recogniseByte(m, idx, start, ids) ==
    IF idx >= start /\ idx < start + Len(ids)
    THEN IF idx < Len(ids)
         THEN recognised(m, idx, "true", miName \o ": " \o ids[idx + 1])
         ELSE recognised(m, idx, "panic", "")
    ELSE recognised(m, idx, "false", "")

\* Recognise(m, idx)
Recognise(m, idx) ==
    CASE m \in {"name", "mime", "xml"} ->
             recogniseFrom(m, idx, miIdentifier[m].start, miIdentifier[m].ids)
      [] m = "byte" ->
             recogniseByte(m, idx, miIdentifier[m].start, miIdentifier[m].ids)
      [] m = "text" ->
             IF idx = miIdentifier[m].start
             THEN recognised(m, idx, "true", miName \o ": " \o TextPuid)
             ELSE recognised(m, idx, "false", "")
      [] OTHER -> recognised(m, idx, "false", "")

\* -------------------------------------------------- MIME-info identifier: Init

\* New(): no IDs, every base index 0
MiInit ==
    /\ miIdentifier = [t \in AddTypes |-> [start |-> 0, ids |-> << >>]]
    /\ miRet = recognised("", 0, "false", "")

\* ----------------------------------------------- MIME-info identifier: actions

\* Add(m, t) for a matcher that holds l signatures once those of ids are
\* added: the IDs are kept, and the base index l - len(ids); for the text
\* matcher the base index is l and there are no IDs
MiAdd(t, ids, l) ==
    /\ l >= Len(ids)
    /\ l - Len(ids) <= MaxStart
    /\ t = "text" => ids = << >>
    /\ miIdentifier' = [miIdentifier EXCEPT ![t] = [start |-> l - Len(ids), ids |-> ids]]
    /\ UNCHANGED miRet
    /\ UNCHANGED miRest

\* a call of Recognise(m, idx)
MiRecognise(m, idx) ==
    /\ miRet' = Recognise(m, idx)
    /\ UNCHANGED miIdentifier
    /\ UNCHANGED miRest

MiNext ==
    \/ \E t \in AddTypes : \E ids \in IDLists : \E l \in 0 .. (MaxStart + MaxIDs) :
           MiAdd(t, ids, l)
    \/ \E m \in MatcherTypes : \E idx \in 0 .. (MaxStart + MaxIDs) : MiRecognise(m, idx)

\* --------------------------------------------------- siegreader: pure parts

\* readSz and initialRead (4096 and 2 * 4096 in the source), scaled down
readSz == 2
initialRead == readSz * 2

Goroutines == {"g1", "g2"}
Readers == {"r1", "r2"}

Min(a, b) == IF a <= b THEN a ELSE b

\* the bytes of a source of n bytes: the byte at offset k is k + 1
Source(n) == [k \in 1 .. n |-> k]

\* make([]byte, n)
Zeros(n) == [k \in 1 .. n |-> 0]

\* fill, up to the return of b.src.Read: grow when there is no room, the copy
\* from the eof buffer near the end of the file (then fill is over: done), or
\* a read of at most readSz bytes, of which the source gives at most chunk
fillRead(b) ==
    LET newBuf == [k \in 1 .. b.sz |->
                      IF k <= b.val /\ k <= Len(b.buf) THEN b.buf[k] ELSE 0]
        b1 == IF Len(b.buf) - readSz < b.val THEN [b EXCEPT !.buf = newBuf] ELSE b
        lr == b1.sz - b1.val
        e == Min(b1.val + readSz, Len(b1.buf))
        i == Min(Min(e - b1.val, b1.n - b1.pos), b1.chunk)
    IN  IF Len(b1.eof) > 0 /\ b1.eofRead /\ b1.val + readSz >= b1.sz
        THEN [b |-> [b1 EXCEPT
                        !.closes = @ + 1,
                        !.panic = IF b1.closes > 0 THEN "close of closed channel" ELSE @,
                        !.complete = TRUE,
                        !.buf = [k \in 1 .. Len(b1.buf) |->
                                    IF k > b1.val /\ k <= b1.val + lr
                                    THEN b1.eof[(readSz - lr) + (k - b1.val)]
                                    ELSE b1.buf[k]],
                        !.val = b1.val + lr],
              i |-> 0, done |-> TRUE]
        ELSE [b |-> [b1 EXCEPT
                        !.buf = [k \in 1 .. Len(b1.buf) |->
                                    IF k > b1.val /\ k <= b1.val + i
                                    THEN Source(b1.n)[b1.pos + (k - b1.val)]
                                    ELSE b1.buf[k]],
                        !.pos = b1.pos + i],
              i |-> i, done |-> FALSE]

\* fill, after b.src.Read returned i bytes: a read of less than readSz bytes
\* is taken as the end of the source
fillCommit(b, i) ==
    IF i < readSz
    THEN [b |-> [b EXCEPT
                    !.closes = @ + 1,
                    !.panic = IF b.closes > 0 THEN "close of closed channel" ELSE @,
                    !.complete = TRUE,
                    !.val = b.val + i,
                    !.sz = IF Len(b.eof) < readSz THEN b.val + i ELSE @],
          err |-> "EOF"]
    ELSE [b |-> [b EXCEPT !.val = b.val + i], err |-> "nil"]

\* fill by a goroutine that nothing interleaves with
fill(b) ==
    CHOOSE v \in { IF r.done THEN [b |-> r.b, err |-> "EOF"] ELSE fillCommit(r.b, r.i) :
                      r \in {fillRead(b)} } : TRUE

\* what a call returns: bytes and error, or (for canSeek) ok and error
returned(data, ok, err) == [data |-> data, ok |-> ok, err |-> err]

\* Slice, from the test of err after the loop to its return
sliceReturn(b, s, l, err) ==
    IF err = "nil" /\ ~b.complete
    THEN returned(SubSeq(b.buf, s + 1, s + l), TRUE, "nil")
    ELSE IF s + l > b.val
         THEN IF s > b.val \/ b.sz = 0
              THEN returned(<< >>, TRUE, "EOF")
              ELSE returned(SubSeq(b.buf, s + 1, b.val), TRUE, "EOF")
         ELSE returned(SubSeq(b.buf, s + 1, s + l), TRUE, "nil")

\* canSeek, from the test of err after the loop under the mutex to its return
canSeekReturn(b, o, err) ==
    IF err = "nil" THEN returned(<< >>, TRUE, "nil")
    ELSE IF o > b.val THEN returned(<< >>, FALSE, "EOF")
         ELSE returned(<< >>, TRUE, "nil")

RECURSIVE sliceFill(_, _, _)
\* the loop of Slice: fill until s + l bytes are there or fill gives an error
sliceFill(b, s, l) ==
    CHOOSE v \in { IF s + l > r.b.val /\ r.err = "nil" THEN sliceFill(r.b, s, l) ELSE r :
                      r \in {fill(b)} } : TRUE

\* Slice(s, l) by a goroutine that nothing interleaves with: the SmallFile
\* after the call and what the call returns
Slice(b, s, l) ==
    IF s + l > b.val /\ ~b.complete
    THEN CHOOSE v \in { [b |-> r.b, ret |-> sliceReturn(r.b, s, l, r.err)] :
                           r \in {sliceFill(b, s, l)} } : TRUE
    ELSE [b |-> b, ret |-> sliceReturn(b, s, l, "nil")]

RECURSIVE fillAll(_)
\* the loop of canSeek for a reverse seek without a size: fill until an error
fillAll(b) ==
    CHOOSE v \in { IF r.err = "nil" THEN fillAll(r.b) ELSE r : r \in {fill(b)} } : TRUE

\* canSeek(o, rev) by a goroutine that nothing interleaves with: the SmallFile
\* after the call and what the call returns
canSeek(b, o, rev) ==
    IF rev /\ b.sz > 0 /\ b.sz - o < 0 THEN [b |-> b, ret |-> returned(<< >>, FALSE, "nil")]
    ELSE IF rev /\ b.sz <= 0
    THEN CHOOSE v \in { [b |-> r.b, ret |-> returned(<< >>, ~(r.b.sz - o < 0), "nil")] :
                           r \in {fillAll(b)} } : TRUE
    ELSE CHOOSE v \in
             { IF o2 > b.val
               THEN CHOOSE w \in { [b |-> r.b, ret |-> canSeekReturn(r.b, o2, r.err)] :
                                      r \in {sliceFill(b, o2, 0)} } : TRUE
               ELSE [b |-> b, ret |-> canSeekReturn(b, o2, "nil")] :
                   o2 \in {IF rev THEN b.sz - o ELSE o} } : TRUE

\* --------------------------------------------------------- siegreader: Init

\* a goroutine that is in no call
idle == [pc |-> "idle", op |-> "", s |-> 0, l |-> 0, rev |-> FALSE, i |-> 0]

\* NewSF(), before SetSource; no Reader yet
SrInit ==
    /\ sf = [src |-> "nil", n |-> 0, chunk |-> readSz, pos |-> 0, quit |-> "nil",
             buf |-> Zeros(initialRead), eof |-> Zeros(readSz), complete |-> FALSE,
             closes |-> 0, sz |-> 0, val |-> 0, eofRead |-> FALSE, mutex |-> "",
             panic |-> ""]
    /\ sfG = [g \in Goroutines |-> idle]
    /\ sfRet = [g |-> "", call |-> idle, ret |-> returned(<< >>, FALSE, "")]
    /\ rd = [r \in Readers |->
                [made |-> FALSE, i |-> 0, j |-> 0, scratch |-> << >>, end |-> FALSE]]
    /\ rdRet = [r |-> "", op |-> "", len |-> 0, data |-> << >>, err |-> ""]

\* ------------------------------------------------------ siegreader: actions

\* the source is set and no goroutine has panicked
Running == sf.src = "file" /\ sf.panic = ""

\* SetSource(r) for a file of n bytes whose Read gives at most chunk bytes at
\* a time: reset, the size from Stat, the eof buffer, and the initial fill
SetSource(n, chunk) ==
    /\ sf.src = "nil"
    /\ sf' = fill([sf EXCEPT !.src = "file", !.n = n, !.chunk = chunk, !.sz = n,
                             !.eof = IF n > initialRead THEN Zeros(readSz) ELSE << >>]).b
    /\ UNCHANGED << sfG, sfRet, rd, rdRet >>
    /\ UNCHANGED srRest

\* SetQuit(q), before any call waits on the channel
SetQuit ==
    /\ Running
    /\ sf.quit = "nil"
    /\ \A g \in Goroutines : sfG[g].pc # "EofSlice"
    /\ sf' = [sf EXCEPT !.quit = "open"]
    /\ UNCHANGED << sfG, sfRet, rd, rdRet >>
    /\ UNCHANGED srRest

\* close(quit) by the owner of the channel
CloseQuit ==
    /\ Running
    /\ sf.quit = "open"
    /\ sf' = [sf EXCEPT !.quit = "closed"]
    /\ UNCHANGED << sfG, sfRet, rd, rdRet >>
    /\ UNCHANGED srRest

\* the return of a call of goroutine g, with the deferred Unlock
Return(g, b, v) ==
    /\ sf' = [b EXCEPT !.mutex = IF @ = g THEN "" ELSE @]
    /\ sfG' = [sfG EXCEPT ![g] = idle]
    /\ sfRet' = [g |-> g, call |-> [sfG[g] EXCEPT !.pc = "idle", !.i = 0], ret |-> v]

\* goroutine g goes on to position pc of its call
Goto(g, b, pc, i) ==
    /\ sf' = b
    /\ sfG' = [sfG EXCEPT ![g].pc = pc, ![g].i = i]
    /\ UNCHANGED sfRet

\* goroutine g calls Slice(s, l), EofSlice(s, l), canSeek(s, rev) or fillEof():
\* the call up to its first blocking point (the mutex, a loop of fill without
\* the mutex in canSeek, the select of EofSlice) or to an early return
Call(g, op, s, l, rev) ==
    /\ Running
    /\ sfG[g].pc = "idle"
    /\ LET c == [pc |-> "lock", op |-> op, s |-> s, l |-> l, rev |-> rev, i |-> 0]
           early(v) ==
               /\ sfRet' = [g |-> g, call |-> [c EXCEPT !.pc = "idle"], ret |-> v]
               /\ UNCHANGED << sf, sfG >>
           goes(pc, o) ==
               /\ sfG' = [sfG EXCEPT ![g] = [c EXCEPT !.pc = pc, !.s = o]]
               /\ UNCHANGED << sf, sfRet >>
       IN  CASE op = "Slice" -> goes("lock", s)
             [] op = "EofSlice" -> goes("EofSlice", s)
             [] op = "fillEof" ->
                    IF Len(sf.eof) < readSz
                    THEN early(returned(<< >>, TRUE, "nil"))
                    ELSE goes("lock", s)
             [] op = "canSeek" ->
                    IF ~rev THEN goes("lock", s)
                    ELSE IF sf.sz > 0
                         THEN IF sf.sz - s < 0
                              THEN early(returned(<< >>, FALSE, "nil"))
                              ELSE goes("lock", sf.sz - s)
                         ELSE goes("fillRead", s)
    /\ UNCHANGED << rd, rdRet >>
    /\ UNCHANGED srRest

\* after a fill of goroutine g gave err: the panic, the next round of the loop
\* of its call, or the return of the call
afterFill(g, b, err) ==
    LET c == sfG[g]
    IN  IF b.panic # "" THEN sf' = b /\ UNCHANGED << sfG, sfRet >>
        ELSE IF c.op = "Slice"
        THEN IF c.s + c.l > b.val /\ err = "nil"
             THEN Goto(g, b, "fillRead", 0)
             ELSE Return(g, b, sliceReturn(b, c.s, c.l, err))
        ELSE IF b.mutex = g
        THEN IF c.s > b.val /\ err = "nil"
             THEN Goto(g, b, "fillRead", 0)
             ELSE Return(g, b, canSeekReturn(b, c.s, err))
        ELSE IF err = "nil"
             THEN Goto(g, b, "fillRead", 0)
             ELSE Return(g, b, returned(<< >>, ~(b.sz - c.s < 0), "nil"))

\* b.w.Lock() of goroutine g, and its call up to the first fill or, when it
\* needs none, to the return; the whole of fillEof
Lock(g) ==
    /\ Running
    /\ sfG[g].pc = "lock"
    /\ sf.mutex = ""
    /\ LET c == sfG[g]
           b == [sf EXCEPT !.mutex = g]
           k == Min(readSz, b.chunk)
           tail == [j \in 1 .. readSz |->
                       IF j <= k THEN Source(b.n)[(b.n - readSz) + j] ELSE b.eof[j]]
       IN  CASE c.op = "Slice" ->
                    IF c.s + c.l > b.val /\ ~b.complete
                    THEN Goto(g, b, "fillRead", 0)
                    ELSE Return(g, b, sliceReturn(b, c.s, c.l, "nil"))
             [] c.op = "canSeek" ->
                    IF c.s > b.val
                    THEN Goto(g, b, "fillRead", 0)
                    ELSE Return(g, b, canSeekReturn(b, c.s, "nil"))
             [] c.op = "fillEof" ->
                    IF b.eofRead
                    THEN Return(g, b, returned(<< >>, TRUE, "nil"))
                    ELSE Return(g, [b EXCEPT !.eof = tail, !.pos = b.val,
                                             !.eofRead = TRUE],
                                returned(<< >>, TRUE, "nil"))
    /\ UNCHANGED << rd, rdRet >>
    /\ UNCHANGED srRest

\* goroutine g in fill, up to the return of b.src.Read
FillRead(g) ==
    /\ Running
    /\ sfG[g].pc = "fillRead"
    /\ LET r == fillRead(sf)
       IN  IF r.done THEN afterFill(g, r.b, "EOF")
           ELSE Goto(g, r.b, "fillCommit", r.i)
    /\ UNCHANGED << rd, rdRet >>
    /\ UNCHANGED srRest

\* goroutine g in fill, from the return of b.src.Read to the return of fill
FillCommit(g) ==
    /\ Running
    /\ sfG[g].pc = "fillCommit"
    /\ LET r == fillCommit(sf, sfG[g].i)
       IN  afterFill(g, r.b, r.err)
    /\ UNCHANGED << rd, rdRet >>
    /\ UNCHANGED srRest

\* an EofSlice that looks at quit only once the source has been read to its end
EofSliceAfterComplete(g) ==
    /\ Running
    /\ sfG[g].pc = "EofSlice"
    /\ sf.complete
    /\ sf.quit = "closed"
    /\ Return(g, sf, returned(<< >>, FALSE, "ErrQuit"))
    /\ UNCHANGED << rd, rdRet >>
    /\ UNCHANGED srRest

\* EofSlice of goroutine g: its first select has the one case <-b.quit and no
\* default, so the call waits for quit to be closed and returns ErrQuit; the
\* statements after that select are never reached
EofSliceQuit(g) ==
    /\ Running
    /\ sfG[g].pc = "EofSlice"
    /\ sf.quit = "closed"
    /\ Return(g, sf, returned(<< >>, FALSE, "ErrQuit"))
    /\ UNCHANGED << rd, rdRet >>
    /\ UNCHANGED srRest

\* NewReader(): setBuf(0)
NewReader(r) ==
    /\ Running
    /\ sf.mutex = ""
    /\ ~rd[r].made
    /\ \E x \in {Slice(sf, 0, readSz)} :
           /\ sf' = x.b
           /\ rd' = [rd EXCEPT ![r] = [made |-> TRUE, i |-> 0, j |-> 0,
                                       scratch |-> x.ret.data,
                                       end |-> x.ret.err = "EOF"]]
    /\ rdRet' = [r |-> r, op |-> "NewReader", len |-> 0, data |-> << >>, err |-> ""]
    /\ UNCHANGED << sfG, sfRet >>
    /\ UNCHANGED srRest

\* Reader.Read(b) with len(b) = len
Read(r, len) ==
    /\ Running
    /\ sf.mutex = ""
    /\ rd[r].made
    /\ \E x \in {Slice(sf, rd[r].i, len)} :
       LET c == rd[r]
           direct == len > Len(c.scratch) - c.j
           slc == IF direct THEN x.ret.data ELSE SubSeq(c.scratch, c.j + 1, c.j + len)
           err == IF direct THEN x.ret.err ELSE "nil"
       IN  /\ sf' = IF direct THEN x.b ELSE sf
           /\ rd' = [rd EXCEPT ![r].i = @ + Len(slc), ![r].j = @ + Len(slc),
                               ![r].end = @ \/ err = "EOF"]
           /\ rdRet' = [r |-> r, op |-> "Read", len |-> len, data |-> slc, err |-> err]
    /\ UNCHANGED << sfG, sfRet >>
    /\ UNCHANGED srRest

\* Reader.ReadByte(); an index out of the range of r.scratch panics
ReadByte(r) ==
    /\ Running
    /\ sf.mutex = ""
    /\ rd[r].made
    /\ \E x \in {Slice(sf, rd[r].i, readSz)} :
       LET c == rd[r]
           byteRet(data, err) == [r |-> r, op |-> "ReadByte", len |-> 1, data |-> data,
                              err |-> err]
       IN  IF c.j >= Len(c.scratch)
           THEN IF c.end
                THEN /\ rdRet' = byteRet(<< >>, "EOF")
                     /\ UNCHANGED << sf, rd >>
                ELSE IF Len(x.ret.data) = 0
                THEN /\ sf' = [x.b EXCEPT !.panic = "index out of range"]
                     /\ rd' = [rd EXCEPT ![r].scratch = x.ret.data, ![r].j = 0,
                                         ![r].end = @ \/ x.ret.err = "EOF"]
                     /\ rdRet' = byteRet(<< >>, "panic")
                ELSE /\ sf' = x.b
                     /\ rd' = [rd EXCEPT ![r].scratch = x.ret.data, ![r].j = 1,
                                         ![r].i = @ + 1,
                                         ![r].end = @ \/ x.ret.err = "EOF"]
                     /\ rdRet' = byteRet(<< x.ret.data[1] >>, "nil")
           ELSE /\ rd' = [rd EXCEPT ![r].i = @ + 1, ![r].j = @ + 1]
                /\ rdRet' = byteRet(<< c.scratch[c.j + 1] >>, "nil")
                /\ UNCHANGED sf
    /\ UNCHANGED << sfG, sfRet >>
    /\ UNCHANGED srRest

\* Reader.Seek(offset, whence); rdRet.len is the offset Seek returns, and a
\* Seek that canSeek refuses is recorded as "SeekFailed"
Seek(r, offset, whence) ==
    /\ Running
    /\ sf.mutex = ""
    /\ rd[r].made
    /\ \E x \in {canSeek(sf, IF whence = 1 THEN offset + rd[r].i ELSE offset, whence = 2)} :
       \E off \in {IF whence = 2 THEN x.b.sz - offset
                   ELSE IF whence = 1 THEN offset + rd[r].i ELSE offset} :
           /\ sf' = x.b
           /\ IF x.b.panic # ""
              THEN /\ rdRet' = [r |-> r, op |-> "SeekFailed", len |-> 0, data |-> << >>,
                                err |-> "panic"]
                   /\ UNCHANGED rd
              ELSE IF x.ret.ok
              THEN /\ rd' = [rd EXCEPT ![r].i = off, ![r].j = off % readSz]
                   /\ rdRet' = [r |-> r, op |-> "Seek", len |-> off, data |-> << >>,
                                err |-> x.ret.err]
              ELSE /\ rdRet' = [r |-> r, op |-> "SeekFailed", len |-> 0, data |-> << >>,
                                err |-> x.ret.err]
                   /\ UNCHANGED rd
    /\ UNCHANGED << sfG, sfRet >>
    /\ UNCHANGED srRest

\* the sources given to SetSource: any size, any size of the reads
Sizes == 0 .. MaxSize
Chunks == 1 .. readSz

\* the calls of the goroutines that run side by side
Calls ==
    { [op |-> "Slice", s |-> 0, l |-> MaxSize, rev |-> FALSE],
      [op |-> "EofSlice", s |-> 0, l |-> 1, rev |-> FALSE],
      [op |-> "fillEof", s |-> 0, l |-> 0, rev |-> FALSE],
      [op |-> "canSeek", s |-> 1, l |-> 0, rev |-> FALSE],
      [op |-> "canSeek", s |-> 0, l |-> 0, rev |-> TRUE] }

\* the calls of one goroutine: every offset and length around the source
SliceCalls ==
    { [op |-> op, s |-> s, l |-> l, rev |-> FALSE] :
          op \in {"Slice", "EofSlice"}, s \in 0 .. (MaxSize + 1), l \in 1 .. (readSz + 1) }
    \cup { [op |-> "fillEof", s |-> 0, l |-> 0, rev |-> FALSE] }

\* the steps of the goroutines, whatever they call
Steps(g) ==
    \/ Lock(g)
    \/ FillRead(g)
    \/ FillCommit(g)
    \/ EofSliceQuit(g)

\* goroutines that call the SmallFile side by side
SfNext ==
    \/ \E n \in Sizes : \E chunk \in Chunks : SetSource(n, chunk)
    \/ SetQuit
    \/ CloseQuit
    \/ \E g \in Goroutines : \E c \in Calls : Call(g, c.op, c.s, c.l, c.rev)
    \/ \E g \in Goroutines : Steps(g)

\* one goroutine that calls Slice, EofSlice and fillEof, one call after the other
SliceNext ==
    \/ \E n \in Sizes : \E chunk \in Chunks : SetSource(n, chunk)
    \/ SetQuit
    \/ CloseQuit
    \/ \E c \in SliceCalls : Call("g1", c.op, c.s, c.l, c.rev)
    \/ Steps("g1")

\* two Readers over one buffer
ReadersNext ==
    \/ \E n \in Sizes : \E chunk \in Chunks : SetSource(n, chunk)
    \/ \E r \in Readers : NewReader(r)
    \/ \E r \in Readers : \E len \in 1 .. (readSz + 1) : Read(r, len)
    \/ \E r \in Readers : ReadByte(r)

\* one Reader that seeks, over a source that gives full reads
SeekNext ==
    \/ \E n \in Sizes : SetSource(n, readSz)
    \/ NewReader("r1")
    \/ ReadByte("r1")
    \/ \E offset \in 0 .. MaxSize : \E whence \in 0 .. 2 : Seek("r1", offset, whence)

\* ------------------------------------------------------------------ parseSig

\* bofstring, varstring and eofstring
Positions == {"Absolute from BOF", "Variable", "Absolute from EOF"}

\* the signature of the tokens of byte sequence bs with position pos: a BOF
\* frame and PREV frames, or SUCC frames and an EOF frame. The byte sequence
\* has no Offset and no MaxOffset and its hex string no wild cards, so every
\* offset is 0, but for the max of the first frame of a Variable sequence,
\* which is -1; the token bs, tok stands for the pattern
tokSig(pos, ntoks, bs) ==
    [i \in 1 .. ntoks |->
        [typ |-> IF pos = "Absolute from EOF"
                 THEN IF i = ntoks THEN "EOF" ELSE "SUCC"
                 ELSE IF i = 1 THEN "BOF" ELSE "PREV",
         min |-> 0,
         max |-> IF pos = "Variable" /\ i = 1 THEN -1 ELSE 0,
         bs |-> bs, tok |-> i]]

\* a signature that just appends the segment
appendSigAtEnd(s1, s2, pos) == s1 \o s2

\* appendSig(s1, s2, pos): an EOF segment goes to the end, another one before
\* the first SUCC or EOF frame
appendSig(s1, s2, pos) ==
    LET late == { i \in 1 .. Len(s1) : s1[i].typ \in {"SUCC", "EOF"} }
        first == CHOOSE i \in late : \A k \in late : i <= k
    IN  IF Len(s1) = 0 THEN s2
        ELSE IF pos = "Absolute from EOF" \/ late = {} THEN s1 \o s2
        ELSE SubSeq(s1, 1, first - 1) \o s2 \o SubSeq(s1, first, Len(s1))

\* parseSig at its start
PsInit ==
    /\ sig = << >>
    /\ nByteSeqs = 0

\* one round of the loop of parseSig, for a byte sequence with position pos
\* whose hex string has ntoks tokens
ParseByteSequence(pos, ntoks) ==
    /\ nByteSeqs < MaxByteSeqs
    /\ nByteSeqs' = nByteSeqs + 1
    /\ sig' = appendSig(sig, tokSig(pos, ntoks, nByteSeqs + 1), pos)
    /\ UNCHANGED psRest

PsNext == \E pos \in Positions : \E ntoks \in 1 .. MaxToks : ParseByteSequence(pos, ntoks)

\* ------------------------------------------------------------------ patterns

\* the byte values of the patterns and of the buffers
Bytes == {1, 2}

\* every []byte of at most n bytes
BytesUpTo(n) == UNION { [1 .. k -> Bytes] : k \in 0 .. n }

\* a pattern: a Sequence has bytes, a Choice and a List have patterns
Pattern(kind, bytes, pats) == [kind |-> kind, bytes |-> bytes, pats |-> pats]

Seqs == { Pattern("Sequence", s, << >>) : s \in BytesUpTo(MaxSeqLen) }
Choices == { Pattern("Choice", << >>, << p1, p2 >>) : p1 \in Seqs, p2 \in Seqs }
Lists ==
    { Pattern("List", << >>, << p1 >>) : p1 \in Seqs \cup Choices }
    \cup { Pattern("List", << >>, << p1, p2 >>) :
               p1 \in Seqs \cup Choices, p2 \in Seqs \cup Choices }
Buffers == BytesUpTo(MaxBufLen)

\* what Test and TestR return
tested(ok, n) == [ok |-> ok, n |-> n]

\* b[total:] for Test, b[:len(b)-total] for TestR
rest(b, total, rev) ==
    IF rev THEN SubSeq(b, 1, Len(b) - total) ELSE SubSeq(b, total + 1, Len(b))

RECURSIVE Test(_, _, _)
RECURSIVE choiceTest(_, _, _, _, _, _, _)
RECURSIVE choiceFirst(_, _, _, _, _, _, _)
RECURSIVE listTest(_, _, _, _, _, _)

\* a Choice that returns the length of the first child that succeeds
choiceFirst(c, b, rev, i, r, tl, fl) ==
    IF i > Len(c) THEN tested(r, IF r THEN tl ELSE fl)
    ELSE CHOOSE v \in
             { IF t.ok
               THEN choiceFirst(c, b, rev, i + 1, TRUE, IF r THEN tl ELSE t.n, fl)
               ELSE choiceFirst(c, b, rev, i + 1, r, tl, IF t.n > fl THEN t.n ELSE fl) :
                   t \in {Test(c[i], b, rev)} } : TRUE

\* Choice.test from child i on, with r, tl and fl as the loop has them
choiceTest(c, b, rev, i, r, tl, fl) ==
    IF i > Len(c) THEN tested(r, IF r THEN tl ELSE fl)
    ELSE CHOOSE v \in
             { IF t.ok
               THEN choiceTest(c, b, rev, i + 1, TRUE, IF t.n > tl THEN t.n ELSE tl, fl)
               ELSE choiceTest(c, b, rev, i + 1, r, tl, IF t.n > fl THEN t.n ELSE fl) :
                   t \in {Test(c[i], b, rev)} } : TRUE

\* the loop of List.Test (TestR) over the k-th further element, with first
\* and total as the loop has them
listTest(l, b, rev, k, first, total) ==
    IF k > Len(l) - 1 THEN tested(TRUE, total)
    ELSE IF Len(b) <= total THEN tested(FALSE, 0)
    ELSE CHOOSE v \in
             { IF ~t.ok THEN tested(FALSE, first)
               ELSE listTest(l, b, rev, k + 1, first, total + t.n) :
                   t \in {Test(l[IF rev THEN Len(l) - k ELSE k + 1],
                                rest(b, total, rev), rev)} } : TRUE

\* p.Test(b), or p.TestR(b) when rev
Test(p, b, rev) ==
    CASE p.kind = "Sequence" ->
             IF Len(b) < Len(p.bytes) THEN tested(FALSE, 0)
             ELSE IF p.bytes = (IF rev
                                THEN SubSeq(b, (Len(b) - Len(p.bytes)) + 1, Len(b))
                                ELSE SubSeq(b, 1, Len(p.bytes)))
             THEN tested(TRUE, Len(p.bytes))
             ELSE tested(FALSE, 1)
      [] p.kind = "Choice" -> choiceTest(p.pats, b, rev, 1, FALSE, 0, 0)
      [] p.kind = "List" ->
             IF Len(p.pats) < 1 THEN tested(FALSE, 0)
             ELSE CHOOSE v \in
                      { IF ~t.ok THEN tested(FALSE, t.n)
                        ELSE listTest(p.pats, b, rev, 1, t.n, t.n) :
                            t \in {Test(p.pats[IF rev THEN Len(p.pats) ELSE 1], b, rev)} } :
                      TRUE

RECURSIVE Equals(_, _)
\* p.Equals(q)
Equals(p, q) ==
    CASE p.kind = "Sequence" -> q.kind = "Sequence" /\ p.bytes = q.bytes
      [] p.kind = "Choice" ->
             /\ q.kind = "Choice"
             /\ Len(p.pats) = Len(q.pats)
             /\ \A i \in DOMAIN p.pats : \E k \in DOMAIN q.pats : Equals(p.pats[i], q.pats[k])
      [] p.kind = "List" ->
             ~(/\ q.kind = "List"
               /\ Len(p.pats) = Len(q.pats)
               /\ \E i \in DOMAIN p.pats : ~Equals(p.pats[i], q.pats[i]))

RECURSIVE NumSequences(_)
RECURSIVE numFrom(_, _, _)
\* the loops of Choice.NumSequences (a sum) and List.NumSequences (a product)
\* from element i on
numFrom(p, i, s) ==
    IF i > Len(p.pats) THEN s
    ELSE CHOOSE v \in
             { IF num = 0 THEN 0
               ELSE numFrom(p, i + 1, IF p.kind = "Choice" THEN s + num ELSE s * num) :
                   num \in {NumSequences(p.pats[i])} } : TRUE

\* p.NumSequences()
NumSequences(p) ==
    CASE p.kind = "Sequence" -> 1
      [] p.kind = "Choice" -> numFrom(p, 1, 0)
      [] p.kind = "List" -> numFrom(p, 1, 1)

RECURSIVE Sequences(_)
RECURSIVE seqsFrom(_, _, _)
\* the loops of Choice.Sequences and List.Sequences from element i on: a
\* Choice appends the sequences of the element; a List appends the k-th
\* sequence of the element to times = total / num entries in a row, num
\* being the number of sequences of the element
seqsFrom(p, i, seqs) ==
    IF i > Len(p.pats) THEN seqs
    ELSE CHOOSE v \in
             { seqsFrom(p, i + 1, next) :
                   next \in
                       { IF p.kind = "Choice" THEN seqs \o ss
                         ELSE [x \in 1 .. Len(seqs) |->
                                  IF x <= Len(ss) * (Len(seqs) \div Len(ss))
                                  THEN seqs[x] \o ss[((x - 1) \div (Len(seqs) \div Len(ss))) + 1]
                                  ELSE seqs[x]] :
                             ss \in {Sequences(p.pats[i])} } } : TRUE

\* p.Sequences()
Sequences(p) ==
    CASE p.kind = "Sequence" -> << p.bytes >>
      [] p.kind = "Choice" -> seqsFrom(p, 1, << >>)
      [] p.kind = "List" ->
             CHOOSE v \in { seqsFrom(p, 1, [x \in 1 .. total |-> << >>]) :
                                total \in {NumSequences(p)} } : TRUE

\* no call yet
PtInit ==
    ptCall = [op |-> "", p |-> << >>, q |-> << >>, b |-> << >>, ok |-> FALSE, n |-> 0,
              seqs |-> << >>]

\* a call p.Test(b) or p.TestR(b); the patterns keep no state between calls,
\* and a behaviour makes one call
PtTest(p, b, rev) ==
    /\ ptCall.op = ""
    /\ \E t \in {Test(p, b, rev)} :
           ptCall' = [op |-> IF rev THEN "TestR" ELSE "Test", p |-> p, q |-> << >>, b |-> b,
                      ok |-> t.ok, n |-> t.n, seqs |-> << >>]
    /\ UNCHANGED ptRest

\* a call p.Equals(q) on a List p
PtEquals(p, q) ==
    /\ ptCall.op = ""
    /\ ptCall' = [op |-> "Equals", p |-> p, q |-> q, b |-> << >>, ok |-> Equals(p, q),
                  n |-> 0, seqs |-> << >>]
    /\ UNCHANGED ptRest

\* the calls p.NumSequences() and p.Sequences()
PtSequences(p) ==
    /\ ptCall.op = ""
    /\ ptCall' = [op |-> "Sequences", p |-> p, q |-> << >>, b |-> << >>, ok |-> TRUE,
                  n |-> NumSequences(p), seqs |-> Sequences(p)]
    /\ UNCHANGED ptRest

\* the Lists of Sequences, and what they are compared with
SeqLists == { l \in Lists : \A i \in DOMAIN l.pats : l.pats[i].kind = "Sequence" }

\* the calls of Test and TestR on a Choice
ChoiceNext == \E p \in Choices : \E b \in Buffers : \E rev \in BOOLEAN : PtTest(p, b, rev)

PtNext ==
    \/ \E p \in Seqs \cup Choices \cup Lists : \E b \in Buffers : \E rev \in BOOLEAN :
           PtTest(p, b, rev)
    \/ \E p \in SeqLists : \E q \in Seqs \cup Choices \cup SeqLists : PtEquals(p, q)
    \/ \E p \in Seqs \cup Choices \cup Lists : PtSequences(p)

\* ---------------------------------------------------------------- key frames

\* the offset windows [PMin, PMax] a segment can have; PMax = -1 is unbounded
Windows ==
    { w \in [PMin : 0 .. MaxOff, PMax : -1 .. MaxOff] : w.PMax = -1 \/ w.PMin <= w.PMax }

\* positioning information; the segments of the model are one byte long
keyFramePos(w) == [PMin |-> w.PMin, PMax |-> w.PMax, LMin |-> 1, LMax |-> 1]

\* the key frame toKeyFrame makes of a segment with window w whose key frame
\* lies d bytes into the segment
keyFrame(typ, w, d) ==
    [Typ |-> typ, Seg |-> keyFramePos(w),
     Key |-> keyFramePos([PMin |-> w.PMin + d,
                          PMax |-> IF w.PMax > -1 THEN w.PMax + d ELSE -1])]

KeyFrames(typ) == { keyFrame(typ, w, d) : w \in Windows, d \in 0 .. 1 }

\* the key frames of a signature of one or two segments
Signatures ==
    { << k >> : k \in KeyFrames("BOF") \cup KeyFrames("EOF") }
    \cup { << k1, k2 >> : k1 \in KeyFrames("BOF"),
                          k2 \in KeyFrames("PREV") \cup KeyFrames("EOF") }
    \cup { << k1, k2 >> : k1 \in KeyFrames("SUCC"), k2 \in KeyFrames("EOF") }

calcMinMax(min, max, sp) ==
    [min |-> min + sp.PMin + sp.LMin,
     max |-> IF max < 0 \/ sp.PMax < 0 THEN -1 ELSE max + sp.PMax + sp.LMax]

\* a cap applied only to the windows that end beyond it
applyMaxBounded(kf, cap) ==
    IF cap > 0 /\ kf.Key.PMax > cap THEN [kf EXCEPT !.Key.PMax = cap] ELSE kf

\* "Apply max bof", "apply max eof"
applyMax(kf, cap) ==
    IF cap > 0 /\ (kf.Key.PMax < 0 \/ kf.Key.PMax > cap)
    THEN [kf EXCEPT !.Key.PMax = cap]
    ELSE kf

\* the key frame made absolute with the running min and max
absolute(kf, mm) ==
    [kf EXCEPT !.Key.PMin = mm.min + @,
               !.Key.PMax = IF mm.max > -1 /\ @ > -1 THEN mm.max + @ ELSE -1]

RECURSIVE positions(_, _, _, _, _, _, _)
\* one loop of updatePositions, from key frame i in direction dir, for the
\* anchor type first and the relative type rel, with the running min and max
positions(ks, i, dir, first, rel, cap, mm) ==
    IF i < 1 \/ i > Len(ks) THEN ks
    ELSE IF ks[i].Typ = first
    THEN positions([ks EXCEPT ![i] = applyMax(@, cap)], i + dir, dir, first, rel, cap,
                   calcMinMax(0, 0, ks[i].Seg))
    ELSE IF ks[i].Typ = rel
    THEN positions([ks EXCEPT ![i] = applyMax(absolute(@, mm), cap)], i + dir, dir, first,
                   rel, cap, calcMinMax(mm.min, mm.max, ks[i].Seg))
    ELSE positions(ks, i + dir, dir, first, rel, cap, mm)

\* updatePositions(ks) under config.MaxBOF() = bof and config.MaxEOF() = eof
updatePositions(ks, bof, eof) ==
    CHOOSE v \in
        { positions(fw, Len(ks), -1, "EOF", "SUCC", eof, [min |-> 0, max |-> 0]) :
              fw \in {positions(ks, 1, 1, "BOF", "PREV", bof, [min |-> 0, max |-> 0])} } :
        TRUE

\* the strikes: an offset and a length
Strikes == { << o, 1 >> : o \in 0 .. MaxOff + 1 }
StrikeLists == { << >> } \cup { << a >> : a \in Strikes } \cup (Strikes \X Strikes)

\* the distance of the strike cur from the end of the strike prev lies in sp
inWindow(sp, cur, prev) ==
    /\ (cur[1] - prev[1]) - prev[2] > -1
    /\ ~(\/ (cur[1] - prev[1]) - prev[2] < sp.PMin
         \/ (sp.PMax > -1 /\ (cur[1] - prev[1]) - prev[2] > sp.PMax))

RECURSIVE related(_, _, _, _, _, _)
\* the loops of CheckRelated over thisOff[i] and prevOff[k] for the window sp
related(sp, thisOff, prevOff, i, k, hits) ==
    IF i > Len(thisOff) THEN [ret |-> hits, ok |-> hits # << >>]
    ELSE IF k > Len(prevOff) THEN related(sp, thisOff, prevOff, i + 1, 1, hits)
    ELSE CHOOSE v \in
             { related(sp, thisOff, prevOff, i, k + 1, next) :
                   next \in {IF inWindow(sp, thisOff[i], prevOff[k])
                             THEN Append(hits, thisOff[i])
                             ELSE hits} } : TRUE

\* kf.CheckRelated(prevKf, thisOff, prevOff)
CheckRelated(kf, prevKf, thisOff, prevOff) ==
    IF prevKf.Seg.PMax = -1 /\ prevKf.Seg.PMin = 0 THEN [ret |-> thisOff, ok |-> TRUE]
    ELSE CASE kf.Typ = "BOF" -> [ret |-> thisOff, ok |-> TRUE]
           [] kf.Typ \in {"EOF", "SUCC"} ->
                  IF prevKf.Typ = "SUCC"
                  THEN related(prevKf.Seg, thisOff, prevOff, 1, 1, << >>)
                  ELSE [ret |-> thisOff, ok |-> TRUE]
           [] OTHER -> related(kf.Seg, thisOff, prevOff, 1, 1, << >>)

\* no call yet
KfInit ==
    kfCall = [op |-> "", ks |-> << >>, bof |-> 0, eof |-> 0, after |-> << >>,
              thisOff |-> << >>, prevOff |-> << >>, ret |-> << >>, ok |-> FALSE]

\* a call updatePositions(ks); the key frames keep no state between the
\* calls, and a behaviour makes one call
UpdatePositions(ks, bof, eof) ==
    /\ kfCall.op = ""
    /\ \E r \in {updatePositions(ks, bof, eof)} :
           kfCall' = [op |-> "updatePositions", ks |-> ks, bof |-> bof, eof |-> eof,
                      after |-> r, thisOff |-> << >>, prevOff |-> << >>, ret |-> << >>,
                      ok |-> FALSE]
    /\ UNCHANGED kfRest

\* a call kf.CheckRelated(prevKf, thisOff, prevOff), with ks = << prevKf, kf >>
KfCheckRelated(kf, prevKf, thisOff, prevOff) ==
    /\ kfCall.op = ""
    /\ \E r \in {CheckRelated(kf, prevKf, thisOff, prevOff)} :
           kfCall' = [op |-> "CheckRelated", ks |-> << prevKf, kf >>, bof |-> 0, eof |-> 0,
                      after |-> << >>, thisOff |-> thisOff, prevOff |-> prevOff,
                      ret |-> r.ret, ok |-> r.ok]
    /\ UNCHANGED kfRest

PositionsNext ==
    \E ks \in Signatures : \E bof \in 0 .. MaxCap : \E eof \in 0 .. MaxCap :
        UpdatePositions(ks, bof, eof)

\* the calls for a PREV key frame after a BOF key frame and for an EOF key
\* frame that has a SUCC key frame as prevKf
RelatedNext ==
    \E ks \in { << keyFrame("BOF", w1, 0), keyFrame("PREV", w2, 0) >> :
                    w1 \in Windows, w2 \in Windows }
              \cup { << keyFrame("SUCC", w1, 0), keyFrame("EOF", w2, 0) >> :
                         w1 \in Windows, w2 \in Windows } :
        \E thisOff \in StrikeLists : \E prevOff \in StrikeLists :
            KfCheckRelated(ks[2], ks[1], thisOff, prevOff)

\* ------------------------------------------------- container matcher: Identify

\* the container matchers of a Matcher: whether the trigger matches the first
\* bytes of the buffer, the default extension, whether opening the container
\* reader fails, and the number of entries of the container
ContainerMatchers ==
    [trigger : BOOLEAN, Default : {"", "zip"}, rdrErr : BOOLEAN, entries : 0 .. MaxEntries]
Matchers ==
    { << c >> : c \in ContainerMatchers }
    \cup { << c1, c2 >> : c1 \in ContainerMatchers, c2 \in ContainerMatchers }

\* filepath.Ext(n) of the names given to Identify, without the dot
Exts == {"", "zip", "doc"}

\* c.defaultMatch(n)
defaultMatch(c, ext) == c.Default # "" /\ ext # "" /\ ext = c.Default

\* the first container matcher of m whose trigger matches, 0 if there is none
firstTrigger(m) ==
    IF \E i \in DOMAIN m : m[i].trigger
    THEN CHOOSE i \in DOMAIN m : m[i].trigger /\ \A k \in 1 .. (i - 1) : ~m[k].trigger
    ELSE 0

\* no call yet
CiInit ==
    ci = [m |-> << >>, ext |-> "", res |-> "none", go |-> "none", left |-> 0,
          cons |-> "none", got |-> 0]

\* Matcher.Identify(n, b) up to its return, and the consumer that starts to
\* range over the channel it returns; sliceErr: b.Slice(0, 8) gives an error
MatcherIdentify(m, ext, sliceErr) ==
    /\ ci.cons = "none"
    /\ \E t \in {firstTrigger(m)} :
           ci' = IF sliceErr \/ t = 0
                 THEN [ci EXCEPT !.m = m, !.ext = ext, !.res = "nil", !.cons = "ranging"]
                 ELSE IF defaultMatch(m[t], ext)
                 THEN [ci EXCEPT !.m = m, !.ext = ext, !.res = "open", !.go = "default",
                                 !.cons = "ranging"]
                 ELSE IF m[t].rdrErr
                 THEN [ci EXCEPT !.m = m, !.ext = ext, !.res = "closed",
                                 !.cons = "ranging"]
                 ELSE [ci EXCEPT !.m = m, !.ext = ext, !.res = "open", !.go = "identify",
                                 !.left = m[t].entries, !.cons = "ranging"]
    /\ UNCHANGED ciRest

\* go func() { res <- defaultHit(i); close(res) }(): the send, taken by the
\* consumer
DefaultSend ==
    /\ ci.go = "default"
    /\ ci.cons = "ranging"
    /\ ci' = [ci EXCEPT !.go = "close", !.got = @ + 1]
    /\ UNCHANGED ciRest

\* close(res) of the goroutine of the default hit and of c.identify
CloseRes ==
    /\ ci.go = "close"
    /\ ci' = [ci EXCEPT !.go = "done", !.res = "closed"]
    /\ UNCHANGED ciRest

\* c.identify(rdr, res): one round of the loop over the entries; send: the
\* entry completes a signature, whose result the consumer takes; quits:
\* processHits returns true (satisfied)
IdentifyEntry(send, quits) ==
    /\ ci.go = "identify"
    /\ ci.left > 0
    /\ send => ci.cons = "ranging"
    /\ ci' = [ci EXCEPT !.left = IF quits THEN 0 ELSE @ - 1,
                        !.got = IF send THEN @ + 1 ELSE @,
                        !.go = IF quits \/ ci.left = 1 THEN "close" ELSE @]
    /\ UNCHANGED ciRest

\* c.identify(rdr, res) on a container without entries
IdentifyEmpty ==
    /\ ci.go = "identify"
    /\ ci.left = 0
    /\ ci' = [ci EXCEPT !.go = "close"]
    /\ UNCHANGED ciRest

\* the range loop of the consumer ends when the channel is closed; on a nil
\* channel it blocks for ever
RangeEnds ==
    /\ ci.cons = "ranging"
    /\ ci.res = "closed"
    /\ ci' = [ci EXCEPT !.cons = "finished"]
    /\ UNCHANGED ciRest

CiNext ==
    \/ \E m \in Matchers : \E ext \in Exts : \E sliceErr \in BOOLEAN :
           MatcherIdentify(m, ext, sliceErr)
    \/ DefaultSend
    \/ CloseRes
    \/ \E send \in BOOLEAN : \E quits \in BOOLEAN : IdentifyEntry(send, quits)
    \/ IdentifyEmpty
    \/ RangeEnds

\* ----------------------------------------------- sf: the parallel directory scan

\* the files of the walk, in walk order: whether the file is identified or
\* opening or identifying it fails
FileLists ==
    UNION { [1 .. n -> {"ok", "err"}] : n \in 0 .. MaxFiles }

\* the first file of fs that fails, 0 if none does
firstErr(fs) ==
    IF \E i \in DOMAIN fs : fs[i] = "err"
    THEN CHOOSE i \in DOMAIN fs : fs[i] = "err" /\ \A k \in 1 .. (i - 1) : fs[k] = "ok"
    ELSE 0

\* no scan yet
MpInit ==
    mp = [files |-> << >>, main |-> "none", next |-> 1, resc |-> << >>,
          rescClosed |-> FALSE, rchan |-> << >>, printer |-> "none", rr |-> 0,
          printed |-> << >>, ret |-> -1]

\* multiIdentifyP(s, r) up to filepath.Walk: resc and errc are made and the
\* printer is started
MultiIdentifyP(fs) ==
    /\ mp.main = "none"
    /\ mp' = [mp EXCEPT !.files = fs, !.main = "walk", !.printer = "range",
                        !.rchan = [i \in DOMAIN fs |-> "none"]]
    /\ UNCHANGED mpRest

\* wf on the next file: resc <- rchan, which needs room in resc, and the
\* goroutine of the file is started
WalkSend ==
    /\ mp.main = "walk"
    /\ mp.next <= Len(mp.files)
    /\ Len(mp.resc) < RescCap
    /\ mp' = [mp EXCEPT !.resc = Append(@, mp.next), !.rchan[mp.next] = "running",
                        !.next = @ + 1]
    /\ UNCHANGED mpRest

\* the goroutine of file i: rchan <- res{...}, into a channel of capacity 1
Worker(i) ==
    /\ i \in DOMAIN mp.rchan
    /\ mp.rchan[i] = "running"
    /\ mp' = [mp EXCEPT !.rchan[i] = "full"]
    /\ UNCHANGED mpRest

\* filepath.Walk returns: close(resc), and multiIdentifyP waits on errc
WalkClose ==
    /\ mp.main = "walk"
    /\ mp.next > Len(mp.files)
    /\ mp' = [mp EXCEPT !.rescClosed = TRUE, !.main = "recv"]
    /\ UNCHANGED mpRest

\* printer: for rr := range resc, which takes the next channel or ends when
\* resc is closed and empty
PrinterRange ==
    /\ mp.printer = "range"
    /\ IF mp.resc # << >>
       THEN mp' = [mp EXCEPT !.rr = Head(mp.resc), !.resc = Tail(@), !.printer = "recv"]
       ELSE /\ mp.rescClosed
            /\ mp' = [mp EXCEPT !.printer = "sendNil"]
    /\ UNCHANGED mpRest

\* printer: r := <-rr; on an error it goes to send the error and return,
\* otherwise the file is printed
PrinterRecv ==
    /\ mp.printer = "recv"
    /\ mp.rchan[mp.rr] = "full"
    /\ mp' = IF mp.files[mp.rr] = "err"
             THEN [mp EXCEPT !.rchan[mp.rr] = "taken", !.printer = "sendErr"]
             ELSE [mp EXCEPT !.rchan[mp.rr] = "taken", !.printer = "range",
                             !.printed = Append(@, mp.rr)]
    /\ UNCHANGED mpRest

\* e <- r.err or e <- nil of the printer meets return <-errc: errc has no
\* buffer, so the send waits until multiIdentifyP has left the walk
ErrcSend ==
    /\ mp.printer \in {"sendErr", "sendNil"}
    /\ mp.main = "recv"
    /\ mp' = [mp EXCEPT !.printer = "done", !.main = "returned",
                        !.ret = IF mp.printer = "sendErr" THEN mp.rr ELSE 0]
    /\ UNCHANGED mpRest

MpNext ==
    \/ \E fs \in FileLists : MultiIdentifyP(fs)
    \/ WalkSend
    \/ \E i \in 1 .. MaxFiles : Worker(i)
    \/ WalkClose
    \/ PrinterRange
    \/ PrinterRecv
    \/ ErrcSend

\* ---------------------------------------------------------- specifications

\* the scorer of a new scan, a new container matcher, a new recorder,
\* PronomIdentifier.Identify at its start and a new MIME-info identifier
Init ==
    TallyInit /\ ContInit /\ RecInit /\ PiInit /\ MiInit /\ SrInit /\ PsInit /\ PtInit
    /\ KfInit /\ CiInit /\ MpInit

SpecTally == Init /\ [][TallyNext]_vars

\* Go's scheduler runs every runnable goroutine eventually, and the scanners end
\* (end of input, or quit); starting strikes and abandoning get no fairness
TallyFair ==
    /\ WF_vars(CloseIncoming)
    /\ WF_vars(\E e \in BOOLEAN : OnceDo(e))
    /\ WF_vars(Finalise)
    /\ WF_vars(FilterStop)
    /\ WF_vars(\E g \in Sigs : FilterHit(g))
    /\ WF_vars(ApplyKeyFrame)
    /\ WF_vars(SendResult)
    /\ WF_vars(\E w \in SortedLists : RecvWait(w))
    /\ WF_vars(Halt)
    /\ WF_vars(ConsumerDone)

FairSpecTally == Init /\ [][TallyNext]_vars /\ TallyFair

SpecContainer == Init /\ [][ContNext]_vars

SpecRecorder == Init /\ [][RecNext]_vars

SpecRecorderCalls == Init /\ [][RecCallsNext]_vars

SpecRecordAny == Init /\ [][RecordAnyNext]_vars

SpecIdentify == Init /\ [][PiNext]_vars

SpecMimeInfo == Init /\ [][MiNext]_vars

SpecSmallFile == Init /\ [][SfNext]_vars

\* Go's scheduler runs every runnable goroutine eventually: a goroutine whose
\* select can proceed, or that can take the mutex, does so
FairSpecSmallFile ==
    Init /\ [][SfNext]_vars /\ \A g \in Goroutines : WF_vars(Steps(g))

SpecSlice == Init /\ [][SliceNext]_vars

SpecReaders == Init /\ [][ReadersNext]_vars

SpecSeek == Init /\ [][SeekNext]_vars

SpecParseSig == Init /\ [][PsNext]_vars

SpecPatterns == Init /\ [][PtNext]_vars

SpecChoice == Init /\ [][ChoiceNext]_vars

SpecPositions == Init /\ [][PositionsNext]_vars

SpecRelated == Init /\ [][RelatedNext]_vars

SpecCIdentify == Init /\ [][CiNext]_vars

\* the goroutines of Identify and the consumer are scheduled
FairSpecCIdentify ==
    /\ Init
    /\ [][CiNext]_vars
    /\ WF_vars(DefaultSend)
    /\ WF_vars(CloseRes)
    /\ WF_vars(\E send \in BOOLEAN : \E quits \in BOOLEAN : IdentifyEntry(send, quits))
    /\ WF_vars(IdentifyEmpty)
    /\ WF_vars(RangeEnds)

SpecMultiIdentifyP == Init /\ [][MpNext]_vars

\* the walk, the goroutines of the files and the printer are scheduled
FairSpecMultiIdentifyP ==
    /\ Init
    /\ [][MpNext]_vars
    /\ WF_vars(WalkSend)
    /\ WF_vars(\E i \in 1 .. MaxFiles : Worker(i))
    /\ WF_vars(WalkClose)
    /\ WF_vars(PrinterRange)
    /\ WF_vars(PrinterRecv)
    /\ WF_vars(ErrcSend)

\* ---------------------------------------------------------- tally: claims

\* C1 (as stated): if A rules out B (B is absent from the wait-list returned
\* after A is reported), no scan reports both A and B, in either order.
C1_NoScanReportsBoth ==
    \A i, j \in DOMAIN reported :
        (/\ i # j
         /\ reported[i] # reported[j]
         /\ Priorities[reported[i]] # Unset)
        => reported[j] \in Range(Priorities[reported[i]])

\* C1 (amended): every result reported after another one is on the wait-list
\* returned for the result reported immediately before it; so once A is
\* answered with a wait-list that omits B, B is not reported while that
\* wait-list is the current one.
C1_ReportedOnWaitList ==
    \A i \in DOMAIN reported :
        i > 1 => /\ Priorities[reported[i - 1]] # Unset
                 /\ reported[i] \in Range(Priorities[reported[i - 1]])

\* C1 witness: A was reported, and a hit of a signature that A's wait-list
\* omits arrives and is turned away
C1_Witness ==
    /\ fhPc = "halt104"
    /\ Len(reported) >= 1
    /\ Priorities[reported[Len(reported)]] # Unset
    /\ hit \notin Range(Priorities[reported[Len(reported)]])

\* C2: the scorer reads exactly one wait-list per result it sends; once a
\* result is answered with an empty wait-list no further result is sent,
\* every hit answered from then on is answered halt = true, and the results
\* channel is eventually closed.
C2_ProtocolStop ==
    /\ [](Len(reported) = waitsRead + (IF fhPc = "wait123" THEN 1 ELSE 0))
    /\ [][emptied => reported' = reported]_vars
    /\ [][(emptied /\ awaitHalt' < awaitHalt) => HaltValue(fhPc) = "true"]_vars
    /\ (emptied ~> resultsClosed)

\* C2 witness: after the empty wait-list a later hit is being answered halt = true
C2_Witness ==
    /\ emptied
    /\ satisfied
    /\ fhPc = "halt99"
    /\ Len(reported) >= 2

\* C3: with a consumer that answers every result with one wait-list, every
\* scan terminates: the results channel is closed, filterHits returns and
\* finalise runs to its end.
C3_Terminates ==
    <>(consPc = "abandoned"
       \/ (resultsClosed /\ stopClosed /\ fhPc = "returned" /\ finPc = "done"))

\* C3 witness: a scan that sent results, got them answered, and has terminated
C3_Witness ==
    /\ resultsClosed
    /\ fhPc = "returned"
    /\ finPc = "done"
    /\ consPc = "finished"
    /\ waitsRead >= 2
    /\ spawned = NStrike

\* C4: once the consumer has taken a result and supplies no wait-list, the
\* scorer stays blocked in sendResult: it takes no later hit, sends no halt
\* reply and no result, and the results channel is not closed.
C4_AbandonDeadlocks ==
    /\ [](consPc = "abandoned" => (fhPc = "wait123" /\ ~resultsClosed))
    /\ [][consPc = "abandoned" =>
            /\ fhPc' = fhPc
            /\ reported' = reported
            /\ awaitHalt' = awaitHalt
            /\ \A g \in Sigs : pending'[g] >= pending[g]
            /\ resultsClosed' = resultsClosed]_vars

\* C4 witness: the consumer has abandoned, a later hit is waiting to be taken,
\* and finalise is blocked on the queues
C4_Witness ==
    /\ consPc = "abandoned"
    /\ \E g \in Sigs : pending[g] > 0
    /\ finPc = "wait56"

\* ---------------------------------------------- container matcher: claims

\* the signatures sent on res
ReportedIds == { cReported[i].id : i \in DOMAIN cReported }

\* every part of signature s matches an entry in M
AllPartsIn(s, M) == \A k \in 1 .. cParts[s + 1] : << s, k >> \in M

\* C5: a container signature is reported only when every one of its parts has
\* been matched by an entry read in the scan: the count of partsMatched never
\* counts one part twice, whatever the entries (repeated names included).
C5_ReportedHasAllParts ==
    \A s \in ReportedIds : AllPartsIn(s, matchedRead)

\* a signature is left out by a list of c.Priorities read during the scan
ExcludedByWaitList(s) ==
    /\ ~cPrioNil
    /\ \E i \in DOMAIN cReported : s \notin Range(cReported[i].prio)

\* C6: when res is closed, every signature whose parts all match some entry of
\* the container, and that no wait list excludes, has been reported.
C6_Complete ==
    cPc \in {"broke", "ended"} =>
        \A s \in CSigs :
            (AllPartsIn(s, matchedAll) /\ ~ExcludedByWaitList(s)) => s \in ReportedIds

\* C7 (as stated): after a signature A is reported with a non-empty
\* Priorities[A], every signature reported later in the scan is on Priorities[A].
C7_LaterOnEveryEarlierList ==
    \A i, j \in DOMAIN cReported :
        (i < j /\ ~cPrioNil /\ Len(cReported[i].prio) > 0)
        => cReported[j].id \in Range(cReported[i].prio)

\* C7 (amended): the container matcher's filter is the byte matcher's
\* (checkWait: nil admits every index, otherwise the index must be on the
\* sorted list); every result sent passed it on the wait list then current,
\* which is nil until a result is sent with priorities set and afterwards the
\* list of Priorities read for the result sent immediately before.
C7_FilteredLikeTally ==
    /\ \A s \in CSigs : cCheckWait(cWaitList, s) = checkWait(cWaitList, s)
    /\ \A j \in DOMAIN cReported :
          LET r == cReported[j]
          IN  /\ checkWait(r.wl, r.id)
              /\ r.wl.nil \/ r.id \in Range(r.wl.list)
              /\ (j = 1 \/ cPrioNil) => r.wl.nil
              /\ (j > 1 /\ ~cPrioNil) =>
                     r.wl = [nil |-> FALSE, list |-> cReported[j - 1].prio]

\* C7's case: with priorities set two results were sent, and a signature all of
\* whose parts matched entries read by the scan was not
C7_Witness ==
    /\ ~cPrioNil
    /\ Len(cReported) >= 2
    /\ \E s \in CSigs : s \notin ReportedIds /\ AllPartsIn(s, matchedRead)
                         /\ s \notin Range(cReported[1].prio)

\* ------------------------------------------------------- recorder: claims

\* the identifications of p have pairwise distinct format IDs
DistinctIDs(p) == \A i, j \in DOMAIN p : i # j => p[i].ID # p[j].ID

\* C8: r.ids and what Report sends have pairwise distinct format IDs, and a
\* Record call never adds a second entry for a format: the entries keep their
\* place, and the one it changes has its confidence raised and one basis more.
C8_RecorderDedup ==
    /\ [](DistinctIDs(rIds) /\ DistinctIDs(rReported))
    /\ [][(rPc = "record" /\ rPc' = "record") =>
            /\ Len(rIds') >= Len(rIds)
            /\ \A i \in DOMAIN rIds :
                  /\ rIds'[i].ID = rIds[i].ID
                  /\ rIds'[i] # rIds[i] =>
                        /\ Len(rIds') = Len(rIds)
                        /\ rIds'[i].confidence > rIds[i].confidence
                        /\ Len(rIds'[i].Basis) = Len(rIds[i].Basis) + 1]_vars

\* C8's case: Report sent two identifications, one of them recorded twice
C8_Witness ==
    /\ rPc = "reported"
    /\ Len(rReported) >= 2
    /\ \E i \in DOMAIN rReported : Len(rReported[i].Basis) >= 2

\* C9: Report sends the identifications in descending order of confidence,
\* those of equal confidence in the order in which Record first inserted them.
C9_DescendingTiesByInsertion ==
    \A i, j \in DOMAIN rReported :
        i < j =>
            /\ rReported[i].confidence >= rReported[j].confidence
            /\ rReported[i].confidence = rReported[j].confidence =>
                  indexOf(rInserted, rReported[i].ID, 1)
                      < indexOf(rInserted, rReported[j].ID, 1)

\* Report was called, and the top candidate's confidence is above textScore
TopAboveText == rPc = "reported" /\ Len(rSorted) > 0 /\ rSorted[1].confidence > textScore

\* the sorted candidates from the top down to the last one before the first
\* that Admit(_) turns down
TopRun(Admit(_)) ==
    LET k == CHOOSE k \in 1 .. Len(rSorted) :
                 /\ \A i \in 2 .. k : Admit(rSorted[i])
                 /\ k = Len(rSorted) \/ ~Admit(rSorted[k + 1])
    IN  SubSeq(rSorted, 1, k)

\* the identifications of p, whatever their warnings
Bare(p) == [i \in DOMAIN p |-> [p[i] EXCEPT !.Warning = ""]]

\* C10 (as stated): with a top candidate of confidence > textScore, Report
\* sends the top candidate and the candidates after it of the same confidence,
\* up to the first lower one; none of lower confidence is sent.
C10_OnlyTopConfidence ==
    TopAboveText =>
        /\ Bare(rReported) = TopRun(LAMBDA v : v.confidence = rSorted[1].confidence)
        /\ \A i \in DOMAIN rReported : rReported[i].confidence = rSorted[1].confidence

\* C10 (amended): with a top candidate of confidence > textScore, Report sends
\* the top candidate and the candidates after it, up to the first that neither
\* has the top's confidence nor, when the identifier has no priorities
\* (NoPriority), a confidence of at least incScore; with priorities none of
\* lower confidence than the top is sent.
C10_TopOrNoPriority ==
    TopAboveText =>
        /\ Bare(rReported) = TopRun(LAMBDA v : \/ v.confidence = rSorted[1].confidence
                                               \/ rNoPriority /\ v.confidence >= incScore)
        /\ ~rNoPriority =>
              \A i \in DOMAIN rReported : rReported[i].confidence = rSorted[1].confidence

\* C10's case: without priorities Report sent a second candidate of lower
\* confidence than the top, and left a third one out
C10_Witness ==
    /\ TopAboveText
    /\ rNoPriority
    /\ Len(rReported) >= 2
    /\ rReported[2].confidence < rReported[1].confidence
    /\ Len(rSorted) > Len(rReported)

\* Report was called, and the top candidate's confidence is at most textScore
LowCase == rPc = "reported" /\ Len(rSorted) > 0 /\ rSorted[1].confidence <= textScore

\* the warning w, alone or followed by the mismatch warnings
WithMismatches(w) ==
    { w, addWarning(w, "extension mismatch"), addWarning(w, "MIME mismatch"),
      addWarning(addWarning(w, "extension mismatch"), "MIME mismatch") }

\* Report sent one identification: the candidate v with "match on <evidence>
\* only" in its warning when K = {v}, and otherwise the UNKNOWN that names the
\* possibilities
PrunedTo(K) ==
    IF Cardinality(K) = 1
    THEN LET v == rSorted[CHOOSE i \in K : TRUE]
         IN  /\ Len(rReported) = 1
             /\ rReported[1].ID = v.ID
             /\ rReported[1].Basis = v.Basis
             /\ rReported[1].confidence = v.confidence
             /\ rReported[1].Warning \in
                    WithMismatches("match on " \o lowConfidence(v.confidence) \o " only")
    ELSE /\ Len(rReported) = 1
         /\ rReported[1].ID = "UNKNOWN"
         /\ rReported[1].Warning =
                "no match; possibilities based on "
                \o lowConfidence(possConf(rSorted, 1, 0))
                \o " are " \o Join([i \in 1 .. Len(rSorted) |-> rSorted[i].ID], ", ")

\* the candidates whose format has no byte or container signature
Unsigned == { i \in DOMAIN rSorted : rSorted[i].ID \notin rConfig.has }

\* C11 (as stated): with a top confidence of at most textScore, Report keeps
\* every candidate whose format has no byte or container signature; exactly one
\* kept candidate is reported with "match on <evidence> only", otherwise the
\* UNKNOWN naming the possibilities is reported.
C11_KeepsEveryUnsigned == LowCase => PrunedTo(Unsigned)

\* the candidates Report's loop keeps: those without a byte or container
\* signature, of the top confidence when that is above mimeScore, and not the
\* text format when the top is below textScore and the text matcher is active
Kept ==
    { i \in Unsigned :
        /\ rSorted[1].confidence > mimeScore => rSorted[i].confidence = rSorted[1].confidence
        /\ ~(/\ rSorted[i].ID = TextPuid
             /\ rSorted[1].confidence < textScore
             /\ rConfig.textActive) }

\* C11 (amended): with a top confidence of at most textScore, Report keeps the
\* candidates whose format has no byte or container signature, except those of
\* lower confidence than a top above mimeScore and except the text format when
\* the top is below textScore and the text matcher is active; exactly one kept
\* candidate is the single identification reported, with "match on <evidence>
\* only" in its warning, otherwise the single UNKNOWN naming the possibilities.
C11_LowConfidencePruning == LowCase => PrunedTo(Kept)

\* C11's case: two candidates have no signature, Report kept one of them and
\* reported it
C11_Witness ==
    /\ LowCase
    /\ Cardinality(Unsigned) = 2
    /\ Cardinality(Kept) = 1
    /\ rReported[1].ID # "UNKNOWN"

\* C12: whenever Report runs with no byte or container hit recorded
\* (cscore < incScore), every identification it sends is UNKNOWN or carries
\* "match on <evidence> only" in its warning; so the text format with an
\* extension hit and a text hit carries "match on extension and text only".
C12_NoHitIsLowConfidence ==
    (rPc = "reported" /\ cscore < incScore) =>
        \A i \in DOMAIN rReported :
            \/ rReported[i].ID = "UNKNOWN"
            \/ rReported[i].Warning \in
                   WithMismatches("match on " \o lowConfidence(rReported[i].confidence)
                                  \o " only")

\* C13: Report sends the identification UNKNOWN with the warning "no match",
\* and nothing more, exactly when r.ids is empty; and it never sends nothing.
C13_NoMatchIffEmpty ==
    rPc = "reported" =>
        /\ Len(rReported) >= 1
        /\ (\E i \in DOMAIN rReported :
                rReported[i].ID = "UNKNOWN" /\ rReported[i].Warning = "no match")
           <=> rInserted = << >>
        /\ rInserted = << >> =>
               /\ Len(rReported) = 1
               /\ rReported[1].ID = "UNKNOWN"
               /\ rReported[1].Warning = "no match"

\* C13's case: Report was called on a recorder with no candidate, which was
\* not satisfied
C13_Witness ==
    /\ rPc = "reported"
    /\ rInserted = << >>
    /\ ~rSatisfied
    /\ Len(rReported) = 1

\* the text format is the only candidate, or one of the candidates
OnlyText == Len(rIds) = 1 /\ rIds[1].ID = TextPuid
SomeText == \E i \in DOMAIN rIds : rIds[i].ID = TextPuid

C15_SatisfiedShortCircuits ==
    [][rSatisfied =>
          /\ rSatisfied'
          /\ (rRet'.call = "Record" /\ rRet'.m \in {"byte", "container"}) =>
                 (rIds' = rIds /\ cscore' = cscore)]_vars

\* the confidence of format f in p, 0 when p has no identification of f
confOf(p, f) == IF indexOf(p, f, 1) = 0 THEN 0 ELSE p[indexOf(p, f, 1)].confidence

RECURSIVE countHits(_, _)
\* the number of byte and container hits in the bases of p[k ..]
countHits(p, k) ==
    IF k > Len(p) THEN 0
    ELSE Cardinality({ j \in DOMAIN p[k].Basis : p[k].Basis[j] \in {"byte", "container"} })
         + countHits(p, k + 1)

\* C16: every byte or container hit that Record accepts raises cscore by
\* exactly incScore, so cscore is incScore times the number of accepted hits,
\* and the k-th accepted hit adds k * incScore to the confidence of its format.
C16_IncrementalScore ==
    /\ [](cscore = incScore * countHits(rIds, 1))
    /\ [][cscore' # cscore =>
            /\ cscore' = cscore + incScore
            /\ rRet'.call = "Record" /\ rRet'.m \in {"byte", "container"}
            /\ \E f \in Formats :
                  /\ confOf(rIds', f) = confOf(rIds, f) + cscore'
                  /\ \A g \in Formats \ {f} : confOf(rIds', g) = confOf(rIds, g)]_vars
    /\ [][(rRet'.call = "Record" /\ rRet'.m \in {"byte", "container"} /\ rIds' # rIds)
            => cscore' = cscore + incScore]_vars

\* C16's case: three hits were accepted, the first and the third of one format
C16_Witness ==
    /\ rPc = "record"
    /\ cscore = 3 * incScore
    /\ \E i \in DOMAIN rIds : rIds[i].confidence = incScore + 3 * incScore
    /\ \E i \in DOMAIN rIds : rIds[i].confidence = 2 * incScore

\* the test of C18 for one matcher: it was active, no hit of it was recorded
\* for the format of v, and the format is one of its IDs
Mismatched(v, active, m, ids) == active /\ m \notin Range(v.Basis) /\ v.ID \in ids

RecordFalse == rRet'.call = "Record" /\ ~rRet'.ok

\* C20 as stated: whenever Record returns false, ids, cscore and satisfied are
\* as they were before the call.
C20_FalseLeavesState ==
    [][RecordFalse => (rIds' = rIds /\ cscore' = cscore /\ rSatisfied' = rSatisfied)]_vars

\* C20: a Record call that returns false leaves ids, cscore and satisfied as
\* they were, unless it is the container result with a negative index of a
\* recorder with ZipDefault set: that call adds incScore to cscore and adds
\* ZipPuid to ids with the new cscore, and leaves satisfied as it was.
C20_FalseLeavesStateButZipDefault ==
    [][RecordFalse =>
          \/ rIds' = rIds /\ cscore' = cscore /\ rSatisfied' = rSatisfied
          \/ /\ rRet'.m = "container"
             /\ cscore' = cscore + incScore
             /\ rIds' = add(rIds, ZipPuid, "container", cscore + incScore)
             /\ rSatisfied' = rSatisfied]_vars

\* a byte result outside the range was recorded after a hit and a Satisfied
\* that accepted: Record returned false and the hit's score is still there
C20_Witness ==
    /\ rRet = ret("Record", "byte", FALSE, 0)
    /\ rSatisfied
    /\ cscore = incScore
    /\ Len(rIds) = 1

\* --------------------------------------- PronomIdentifier.Identify: claims

\* the number of byte results for the puid f
byteHits(f) == Cardinality({ k \in DOMAIN piResults : BPuids[piResults[k] + 1] = f })

\* C17: when several formats are each matched by exactly one byte hit (plus
\* any extension hits), the format of the byte hit received last has the
\* strictly highest confidence and is the first identification reported.
C17_LastByteHitFirst ==
    (/\ piPc = "reported"
     /\ Len(piResults) >= 2
     /\ \A i \in PuidIndexes : byteHits(BPuids[i + 1]) <= 1)
    => LET last == BPuids[piResults[Len(piResults)] + 1]
       IN  /\ piReported[1].puid = last
           /\ \A i \in DOMAIN piSorted :
                 piSorted[i].puid # last => piSorted[i].confidence < piSorted[1].confidence

\* ------------------------------------------- MIME-info identifier: claims

\* C19: for the name, MIME, XML and byte matchers, Recognise takes an index idx
\* as one of the identifier's exactly when start <= idx < start + len(IDs),
\* and then maps it to IDs[idx - start], whatever the base index start >= 0.
C19_IndexMapping ==
    miRet.m \in {"name", "mime", "xml", "byte"} =>
        LET start == miIdentifier[miRet.m].start
            ids == miIdentifier[miRet.m].ids
        IN  IF start <= miRet.idx /\ miRet.idx < start + Len(ids)
            THEN /\ miRet.ok = "true"
                 /\ miRet.id = miName \o ": " \o ids[(miRet.idx - start) + 1]
            ELSE miRet.ok = "false"

\* -------------------------------------------------------- siegreader: claims

\* what Slice(s, l) and EofSlice(s, l) have to return for a source of n bytes
ForwardSlice(n, s, l) ==
    IF s + l <= n THEN returned(SubSeq(Source(n), s + 1, s + l), TRUE, "nil")
    ELSE IF s <= n THEN returned(SubSeq(Source(n), s + 1, n), TRUE, "EOF")
    ELSE returned(<< >>, TRUE, "EOF")

\* C21: for a source of n bytes, Slice(s, l) returns source[s:s+l] and nil
\* when s + l <= n, source[s:n] and io.EOF when s <= n < s + l, and no bytes
\* and io.EOF when s > n, however the source splits its bytes into reads.
C21_ForwardSlice ==
    sfRet.call.op = "Slice" =>
        sfRet.ret = ForwardSlice(sf.n, sfRet.call.s, sfRet.call.l)

\* goroutine g is in a call EofSlice(s, l) with s + l <= n, and the source has
\* been read to its end
EofSliceWaits(g) ==
    /\ sfG[g].pc = "EofSlice"
    /\ sf.complete
    /\ sfG[g].s + sfG[g].l <= sf.n

\* the last return is that of EofSlice(s, l) of goroutine g, with the bytes
\* source[n-s-l : n-s] and no error
EofSliceGave(g) ==
    /\ sfRet.g = g
    /\ sfRet.call.op = "EofSlice"
    /\ sfRet.ret.err = "nil"
    /\ sfRet.ret.data = SubSeq(Source(sf.n), (sf.n - sfRet.call.s - sfRet.call.l) + 1,
                               sf.n - sfRet.call.s)

\* C22: once the source of n bytes has been read, a call EofSlice(s, l) with
\* s + l <= n returns source[n-s-l : n-s]; as long as quit is not closed it
\* returns these bytes and no cancellation error.
C22_EofSlice ==
    \A g \in Goroutines :
        EofSliceWaits(g) ~> (EofSliceGave(g) \/ sf.quit = "closed" \/ sf.panic # "")

\* the last return is that of an EofSlice of goroutine g, with ErrQuit
EofSliceQuitted(g) ==
    /\ sfRet.g = g
    /\ sfRet.call.op = "EofSlice"
    /\ sfRet.ret.err = "ErrQuit"

\* C23: an EofSlice call that waits when quit is closed returns ErrQuit; it
\* does not stay blocked (a process that has panicked has no calls left).
C23_QuitUnblocks ==
    \A g \in Goroutines :
        (sfG[g].pc = "EofSlice" /\ sf.quit = "closed")
            ~> (EofSliceQuitted(g) \/ sf.panic # "")

\* an EofSlice call has returned ErrQuit and another one, which waited as
\* well when quit was closed, is about to
C23_Witness ==
    /\ EofSliceQuitted("g1")
    /\ sfG["g2"].pc = "EofSlice"
    /\ sf.quit = "closed"
    /\ sf.panic = ""

\* C24: in every interleaving of the calls, a goroutine that executes fill
\* holds the mutex w, so at most one goroutine at a time is in fill.
C24_FillUnderMutex ==
    \A g \in Goroutines :
        sfG[g].pc \in {"fillRead", "fillCommit"} => sf.mutex = g

\* what Read and ReadByte of a Reader at offset i have to return: the next
\* bytes of the source, and io.EOF when there are less than asked for
ReaderGave ==
    LET i == rd[rdRet.r].i - Len(rdRet.data)
        want == ForwardSlice(sf.n, i, rdRet.len)
    IN  /\ rdRet.data = want.data
        /\ (rdRet.op = "Read" \/ rdRet.data = << >>) => rdRet.err = want.err

\* C25: whatever the interleaving of the Read and ReadByte calls of two
\* Readers over one buffer, every call returns the bytes of the source that
\* follow those its Reader has read so far, as it would for a Reader on its
\* own, no call ends the process, and a call of one Reader leaves the position
\* of the other as it was.
C25_ReadersIndependent ==
    /\ [](sf.panic = "" /\ (rdRet.op \in {"Read", "ReadByte"} => ReaderGave))
    /\ [][\A r \in Readers : rdRet'.r # r => rd'[r] = rd[r]]_vars

\* ----------------------------------------------------------- parseSig: claims

\* C26: whatever the order of the byte sequences with positions Absolute from
\* BOF, Variable and Absolute from EOF, every BOF or PREV frame of the
\* signature comes before every SUCC or EOF frame.
C26_AnchorsMonotonic ==
    \A i, k \in 1 .. Len(sig) :
        (sig[i].typ \in {"SUCC", "EOF"} /\ sig[k].typ \in {"BOF", "PREV"}) => k < i

\* a BOF segment parsed after an EOF segment stands before it
C26_Witness ==
    /\ Len(sig) >= 2
    /\ sig[1].typ = "BOF"
    /\ sig[Len(sig)].typ = "EOF"
    /\ sig[Len(sig)].bs < sig[1].bs

\* ------------------------------------------------------------ patterns: claims

\* the children of the Choice of the last call that match its buffer
Succeeding ==
    { i \in DOMAIN ptCall.p.pats :
          Test(ptCall.p.pats[i], ptCall.b, ptCall.op = "TestR").ok }

\* C27: Test and TestR of a Choice succeed exactly when a child succeeds,
\* and then give the largest length a succeeding child gives.
C27_ChoiceLongest ==
    (ptCall.op \in {"Test", "TestR"} /\ ptCall.p.kind = "Choice") =>
        /\ ptCall.ok = (Succeeding # {})
        /\ ptCall.ok =>
               /\ \E i \in Succeeding :
                      ptCall.n = Test(ptCall.p.pats[i], ptCall.b, ptCall.op = "TestR").n
               /\ \A i \in Succeeding :
                      ptCall.n >= Test(ptCall.p.pats[i], ptCall.b, ptCall.op = "TestR").n

\* a Choice has matched with its second child, the longer of two that succeed
C27_Witness ==
    /\ ptCall.op = "Test"
    /\ ptCall.p.kind = "Choice"
    /\ Succeeding = {1, 2}
    /\ Len(ptCall.p.pats[1].bytes) < Len(ptCall.p.pats[2].bytes)
    /\ ptCall.ok
    /\ ptCall.n = Len(ptCall.p.pats[2].bytes)

\* p1 matches the first n bytes of b and p2 matches what follows them
Concatenation(p1, p2, b, n) ==
    /\ Test(p1, b, FALSE) = tested(TRUE, n)
    /\ Test(p2, SubSeq(b, n + 1, Len(b)), FALSE).ok

\* C28: Test of a List of two patterns succeeds with total length n1 + n2
\* exactly when the first pattern matches n1 bytes at the start of the
\* buffer and the second matches n2 bytes right after them.
C28_ListConcatenation ==
    (ptCall.op = "Test" /\ ptCall.p.kind = "List" /\ Len(ptCall.p.pats) = 2) =>
        /\ ptCall.ok = (\E n \in 0 .. Len(ptCall.b) :
                            Concatenation(ptCall.p.pats[1], ptCall.p.pats[2], ptCall.b, n))
        /\ ptCall.ok =>
               \E n \in 0 .. Len(ptCall.b) :
                   /\ Concatenation(ptCall.p.pats[1], ptCall.p.pats[2], ptCall.b, n)
                   /\ ptCall.n =
                          n + Test(ptCall.p.pats[2],
                                   SubSeq(ptCall.b, n + 1, Len(ptCall.b)), FALSE).n

\* C29: Equals of a List is true only if the other pattern is a List of
\* the same length whose elements are Equal to the elements of the List,
\* one by one and in order.
C29_ListEquals ==
    (ptCall.op = "Equals" /\ ptCall.ok) =>
        /\ ptCall.q.kind = "List"
        /\ Len(ptCall.q.pats) = Len(ptCall.p.pats)
        /\ \A i \in DOMAIN ptCall.p.pats : Equals(ptCall.p.pats[i], ptCall.q.pats[i])

\* s is a prefix of b
IsPrefix(s, b) == Len(s) <= Len(b) /\ s = SubSeq(b, 1, Len(s))

\* every combination of one sequence of p1 and one of p2, concatenated
Product(p1, p2) ==
    { Sequences(p1)[i] \o Sequences(p2)[k] :
          i \in DOMAIN Sequences(p1), k \in DOMAIN Sequences(p2) }

\* C30: Sequences of a pattern with n sequences returns n sequences, and
\* Test of the pattern succeeds on a buffer exactly when one of them is a
\* prefix of the buffer; the sequences of a List of two patterns are every
\* combination of a sequence of the first and a sequence of the second.
C30_SequencesExact ==
    (ptCall.op = "Sequences" /\ ptCall.n > 0) =>
        /\ Len(ptCall.seqs) = ptCall.n
        /\ \A b \in Buffers :
               Test(ptCall.p, b, FALSE).ok
                   = (\E k \in DOMAIN ptCall.seqs : IsPrefix(ptCall.seqs[k], b))
        /\ (ptCall.p.kind = "List" /\ Len(ptCall.p.pats) = 2) =>
               { ptCall.seqs[k] : k \in DOMAIN ptCall.seqs }
                   = Product(ptCall.p.pats[1], ptCall.p.pats[2])

\* --------------------------------------------------- recorder: further claim

\* the bit score of the confidence c is set
BitSet(c, score) == (c \div score) % 2 = 1

\* C38: for every candidate of r.ids the bit extScore of its confidence is set
\* exactly when a hit of the name matcher was recorded for its format, the
\* bit mimeScore exactly when a MIME hit was, and the bit textScore exactly
\* when a text hit was, however many hits of a kind were recorded.
C38_ConfidenceBits ==
    \A i \in DOMAIN rIds :
        /\ BitSet(rIds[i].confidence, extScore) = ("name" \in Range(rIds[i].Basis))
        /\ BitSet(rIds[i].confidence, mimeScore) = ("mime" \in Range(rIds[i].Basis))
        /\ BitSet(rIds[i].confidence, textScore) = ("text" \in Range(rIds[i].Basis))

\* ------------------------------------------------------ tally shutdown: claim

\* C33: in every scan quit, results and stop are closed in that order, each
\* by a close of a channel that is still open, however often shutdown is
\* called; no result is sent on results once it is closed; and unless the
\* consumer abandons a result all three end up closed.
C33_Shutdown ==
    /\ []((resultsClosed => quitClosed) /\ (stopClosed => resultsClosed))
    /\ [][/\ (finPc = "close59" /\ finPc' # finPc) => ~quitClosed
          /\ (finPc = "close65" /\ finPc' # finPc) => ~resultsClosed
          /\ (finPc = "close66" /\ finPc' # finPc) => ~stopClosed
          /\ quitClosed => quitClosed'
          /\ resultsClosed => (resultsClosed' /\ reported' = reported)
          /\ stopClosed => stopClosed']_vars
    /\ [](fhPc # "panic")
    /\ <>(consPc = "abandoned" \/ (quitClosed /\ resultsClosed /\ stopClosed))

\* shutdown was called on the satisfied path and on the end-of-input path,
\* both calls have reached the sync.Once, and the three channels are closed
C33_Witness ==
    /\ satisfied
    /\ ~incomingOpen
    /\ shutdownReq = {}
    /\ Len(reported) > 0
    /\ quitClosed /\ resultsClosed /\ stopClosed

\* ---------------------------------------------------------- key frames: claims

Compatible(o, sp, prevOff) ==
    \E k \in DOMAIN prevOff :
        LET d == (o[1] - prevOff[k][1]) - prevOff[k][2]
        IN  d >= 0 /\ sp.PMin <= d /\ (sp.PMax = -1 \/ d <= sp.PMax)

\* C32: CheckRelated of a PREV key frame succeeds only if a current strike
\* has a prior strike of the preceding segment at a distance within
\* [Seg.PMin, Seg.PMax], and it returns exactly the current strikes that have
\* one.
C32_Relatedness ==
    (kfCall.op = "CheckRelated" /\ kfCall.ks[2].Typ = "PREV") =>
        /\ kfCall.ok =>
               \E i \in DOMAIN kfCall.thisOff :
                   Compatible(kfCall.thisOff[i], kfCall.ks[2].Seg, kfCall.prevOff)
        /\ { kfCall.ret[i] : i \in DOMAIN kfCall.ret }
               = { kfCall.thisOff[i] : i \in
                       { k \in DOMAIN kfCall.thisOff :
                             Compatible(kfCall.thisOff[k], kfCall.ks[2].Seg, kfCall.prevOff) } }

\* ----------------------------------------------- siegreader: further claims

\* C34: the completion channel of a SmallFile is closed at most once after a
\* reset, whatever calls of Slice, EofSlice and canSeek follow.
C34_CompletecClosedOnce == sf.closes <= 1

\* C35: for a source of any length n, the n first calls of ReadByte of a
\* Reader return the bytes of the source in order and every further call
\* returns io.EOF; no call indexes outside the scratch slice.
C35_EndOfStream ==
    rdRet.op = "ReadByte" =>
        /\ rdRet.err # "panic"
        /\ IF rd[rdRet.r].i - Len(rdRet.data) < sf.n
           THEN /\ rdRet.err = "nil"
                /\ rdRet.data = << Source(sf.n)[rd[rdRet.r].i] >>
           ELSE rdRet.err = "EOF" /\ rdRet.data = << >>

\* C36: after a Seek that succeeds with offset off, the next ReadByte of the
\* Reader returns the byte of the source at off and moves on to off + 1,
\* whichever block the scratch slice covered before the Seek.
C36_SeekThenRead ==
    [][(rdRet.op = "Seek" /\ rdRet'.op = "ReadByte" /\ rdRet.len < sf.n) =>
           /\ rdRet'.err = "nil"
           /\ rdRet'.data = << Source(sf.n)[rdRet.len + 1] >>
           /\ rd'[rdRet.r].i = rdRet.len + 1]_vars

\* --------------------------------------------- container matcher Identify: claim

\* C37: a consumer that ranges over the channel Identify returns always comes
\* to the end of its loop: the channel is closed in the end, also when no
\* trigger matches, when the first bytes cannot be read, when the default
\* extension matches and when the container reader cannot be opened.
C37_ResultClosed == (ci.cons = "ranging") ~> (ci.cons = "finished")

\* ------------------------------------------- parallel directory scan: claim

\* C39: multiIdentifyP always returns, whatever the number of files and
\* whichever file fails; it returns the error of the first file that fails,
\* nil if none does; and the files that were identified are printed in the
\* order of the walk.
C39_ParallelScan ==
    /\ (mp.main = "walk") ~> (mp.main = "returned")
    /\ [](mp.main = "returned" => mp.ret = firstErr(mp.files))
    /\ [](\A i, k \in DOMAIN mp.printed : i < k => mp.printed[i] < mp.printed[k])

====
